---- MODULE Spec2Model ----
(***************************************************************************)
(* wanpc: a command-line wrapper around cookiecutter that keeps a          *)
(* catalogue of templates and layered default values in ~/.wanpc/config.toml*)
(*                                                                         *)
(* Four specifications share this module:                                  *)
(*   SpecMerge   Config.get_merged_defaults applied to bounded inputs      *)
(*   Spec        the `list` and `config` commands over the persisted file  *)
(*   SpecCreate  the `create` command's variable collection                *)
(*   SpecRace    two `config` invocations running at the same time         *)
(*                                                                         *)
(* Python values are represented as follows.  A dict with string keys is a *)
(* function whose domain is a set of strings.  The two sections that the   *)
(* code type-checks with isinstance (global_defaults and a template's      *)
(* defaults) are tagged: [type |-> "dict", items |-> f] or                 *)
(* [type |-> "NoneType", items |-> <<>>].                                  *)
(***************************************************************************)
EXTENDS Integers, Sequences, FiniteSets, TLC

VARIABLES
    config_data,   \* SpecMerge: the dict handed to get_merged_defaults (as it is now)
    passed_in,     \* SpecMerge: that dict as it was when first handed over
    calls,         \* SpecMerge: the calls made so far, each with its outcome
    file,          \* Spec, SpecCreate, SpecRace: ~/.wanpc/config.toml
    last,          \* Spec: the last command invocation and what it did
    created,       \* SpecCreate: the last `create` invocation and what it did
    race           \* SpecRace: two invocations running at the same time

vars == <<config_data, passed_in, calls, file, last, created, race>>

----------------------------------------------------------------------------
(* Python dict helpers *)

EmptyDict == [k \in {} |-> ""]

PyDict(f) == [type |-> "dict", items |-> f]

PyNone == [type |-> "NoneType", items |-> EmptyDict]

\* isinstance(v, dict)
IsDict(v) == v.type = "dict"

\* d.get(k, default)
DictGet(d, k, default) == IF k \in DOMAIN d THEN d[k] ELSE default

\* a.update(b): every key of b overwrites or is inserted into a
DictUpdate(a, b) ==
    [k \in (DOMAIN a) \cup (DOMAIN b) |-> IF k \in DOMAIN b THEN b[k] ELSE a[k]]

\* d[k] = v
DictSet(d, k, v) == [x \in (DOMAIN d) \cup {k} |-> IF x = k THEN v ELSE d[x]]

\* del d[k]
DictDel(d, k) == [x \in (DOMAIN d) \ {k} |-> d[x]]

\* every dict with keys among K and values among V
Dicts(K, V) == UNION {[D -> V] : D \in SUBSET K}

----------------------------------------------------------------------------
(* Config.get_merged_defaults, config.py 84-114 *)

\* Where a local name points: at the object stored in the config under
\* global_defaults, or at an object of its own.
RefOfGlobalDefaults(cfg) ==
    IF "global_defaults" \in DOMAIN cfg /\ IsDict(cfg["global_defaults"])
    THEN "config_data.global_defaults"
    ELSE "fresh"

\* mutant of DictCopy: merged = global_defaults, without .copy()
DictCopy_Alias(ref) == ref

\* global_defaults.copy(): a new object, whatever ref pointed at
DictCopy(ref) == "fresh"

\* The config after the object behind ref was updated in place to items.
StoreThrough(cfg, ref, items) ==
    IF ref = "config_data.global_defaults"
    THEN [cfg EXCEPT !["global_defaults"] = PyDict(items)]
    ELSE cfg

\* mutant: global defaults applied on top of the template's defaults
Config_get_merged_defaults_GlobalWins(cfg, template_name) ==
    IF template_name \notin DOMAIN DictGet(cfg, "templates", EmptyDict)
    THEN [raised |-> "KeyError", result |-> EmptyDict, config_data |-> cfg]
    ELSE LET g0 == DictGet(cfg, "global_defaults", PyDict(EmptyDict))
             g  == IF IsDict(g0) THEN g0 ELSE PyDict(EmptyDict)
             t0 == DictGet(cfg["templates"][template_name], "defaults", PyDict(EmptyDict))
             t  == IF IsDict(t0) THEN t0 ELSE PyDict(EmptyDict)
         IN  [raised |-> "none", result |-> DictUpdate(t.items, g.items), config_data |-> cfg]

\* mutant: no membership test, as in the module-level helper of config.py
Config_get_merged_defaults_NoCheck(cfg, template_name) ==
    LET g0 == DictGet(cfg, "global_defaults", PyDict(EmptyDict))
        g  == IF IsDict(g0) THEN g0 ELSE PyDict(EmptyDict)
        e  == DictGet(DictGet(cfg, "templates", EmptyDict), template_name, EmptyDict)
        t0 == DictGet(e, "defaults", PyDict(EmptyDict))
        t  == IF IsDict(t0) THEN t0 ELSE PyDict(EmptyDict)
    IN  [raised |-> "none", result |-> DictUpdate(g.items, t.items), config_data |-> cfg]

\* mutant: no isinstance tests; .copy() / .update() on None raise
Config_get_merged_defaults_NoIsinstance(cfg, template_name) ==
    IF template_name \notin DOMAIN DictGet(cfg, "templates", EmptyDict)
    THEN [raised |-> "KeyError", result |-> EmptyDict, config_data |-> cfg]
    ELSE LET g == DictGet(cfg, "global_defaults", PyDict(EmptyDict))
             t == DictGet(cfg["templates"][template_name], "defaults", PyDict(EmptyDict))
         IN  IF ~IsDict(g)
             THEN [raised |-> "AttributeError", result |-> EmptyDict, config_data |-> cfg]
             ELSE IF ~IsDict(t)
             THEN [raised |-> "TypeError", result |-> EmptyDict, config_data |-> cfg]
             ELSE [raised |-> "none", result |-> DictUpdate(g.items, t.items),
                   config_data |-> cfg]

\* Returns what the call raised ("none" when it returned), the dict returned,
\* and the config as the call leaves it.
Config_get_merged_defaults(cfg, template_name) ==
    IF template_name \notin DOMAIN DictGet(cfg, "templates", EmptyDict)
    THEN [raised |-> "KeyError", result |-> EmptyDict, config_data |-> cfg]
    ELSE LET g0 == DictGet(cfg, "global_defaults", PyDict(EmptyDict))
             global_defaults == IF IsDict(g0) THEN g0 ELSE PyDict(EmptyDict)
             merged_ref == DictCopy(RefOfGlobalDefaults(cfg))
             t0 == DictGet(cfg["templates"][template_name], "defaults", PyDict(EmptyDict))
             template_defaults == IF IsDict(t0) THEN t0 ELSE PyDict(EmptyDict)
             merged == DictUpdate(global_defaults.items, template_defaults.items)
         IN  [raised |-> "none", result |-> merged,
              config_data |-> StoreThrough(cfg, merged_ref, merged)]

\* The module-level get_merged_defaults, config.py 168-178: what it raised
\* ("none" when it returned) and the dict returned.  A section that is None
\* has no copy() and cannot be given to update().
get_merged_defaults(cfg, template_name) ==
    LET global_defaults == DictGet(cfg, "global_defaults", PyDict(EmptyDict))
        template_defaults ==
            DictGet(DictGet(DictGet(cfg, "templates", EmptyDict), template_name,
                            EmptyDict),
                    "defaults", PyDict(EmptyDict))
    IN  IF ~IsDict(global_defaults)
        THEN [raised |-> "AttributeError", result |-> EmptyDict]
        ELSE IF ~IsDict(template_defaults)
        THEN [raised |-> "TypeError", result |-> EmptyDict]
        ELSE [raised |-> "none",
              result |-> DictUpdate(global_defaults.items, template_defaults.items)]

----------------------------------------------------------------------------
(* Strings the code looks into are sequences of pieces: "--author" is      *)
(* <<"-", "-", "author">>, "_extensions" is <<"_", "extensions">> and "" is *)
(* <<>>.  Template names and descriptions are only compared, and stay      *)
(* TLA+ strings.                                                           *)

----------------------------------------------------------------------------
(* Paths and the template directories on disk *)

AbsPath(parts) == [absolute |-> TRUE, parts |-> parts]

RelPath(parts) == [absolute |-> FALSE, parts |-> parts]

\* no --path and no answer to the prompt
NoPath == RelPath(<<>>)

\* Path.cwd()
Cwd == AbsPath(<<"tpl">>)

\* cwd / path
PathJoin(a, b) ==
    IF b.absolute THEN b ELSE [absolute |-> a.absolute, parts |-> a.parts \o b.parts]

RECURSIVE NormalizeParts(_, _)
\* the components with "." dropped and ".." applied
NormalizeParts(done, rest) ==
    IF rest = <<>> THEN done
    ELSE IF Head(rest) = "." THEN NormalizeParts(done, Tail(rest))
    ELSE IF Head(rest) = ".."
         THEN NormalizeParts(IF done = <<>> THEN <<>>
                             ELSE SubSeq(done, 1, Len(done) - 1), Tail(rest))
    ELSE NormalizeParts(Append(done, Head(rest)), Tail(rest))

\* Path.resolve(): absolute (against the working directory) and normalised
PathResolve(p) ==
    AbsPath(NormalizeParts(<<>>, PathJoin(Cwd, p).parts))

PathA == AbsPath(<<"tpl", "a">>)

PathB == AbsPath(<<"tpl", "b">>)

\* a template whose cookiecutter.json declares numbers and booleans
PathC == AbsPath(<<"tpl", "c">>)

\* a directory without cookiecutter.json
PathBare == AbsPath(<<"tpl", "bare">>)

\* Path.exists() for a directory
PathExists(p) ==
    p \in {AbsPath(<<>>), Cwd, PathA, PathB, PathC, PathBare}

\* (template_path / "cookiecutter.json").exists()
HasCookiecutterJson(p) == p \in {PathA, PathB, PathC}

\* JSON values of cookiecutter.json
JStr(s) == [type |-> "str", str |-> s, list |-> <<>>]

JList(l) == [type |-> "list", str |-> <<>>, list |-> l]

JInt(n) == [type |-> "int", int |-> n]

JBool(b) == [type |-> "bool", bool |-> b]

\* bool(value): what `if default_value` tests
Truthy(value) ==
    IF value.type = "str" THEN value.str # <<>>
    ELSE IF value.type = "list" THEN value.list # <<>>
    ELSE IF value.type = "int" THEN value.int # 0
    ELSE value.bool

\* str(value) of a scalar
PyStr(value) ==
    IF value.type = "str" THEN value.str
    ELSE IF value.type = "int" THEN <<ToString(value.int)>>
    ELSE IF value.bool THEN <<"True">> ELSE <<"False">>

author == <<"author">>

license == <<"license">>

project_name == <<"project_name">>

project_slug == <<"project_slug">>

\* a key private to cookiecutter
_extensions == <<"_", "extensions">>

\* a key no cookiecutter.json declares
nonexistent == <<"nonexistent">>

\* cookiecutter.json of /tpl/a
SchemaA ==
    [k \in {project_name, author, license, project_slug, _extensions} |->
        IF k = project_name THEN JStr(<<"My Project">>)
        ELSE IF k = author THEN JStr(<<"John Doe">>)
        ELSE IF k = license THEN JList(<< <<"MIT">>, <<"GPL">> >>)
        ELSE IF k = project_slug
             THEN JStr(<<"{", "{", "cookiecutter.project_name", "}", "}">>)
        ELSE JList(<< <<"jinja2_time.TimeExtension">> >>)]

\* cookiecutter.json of /tpl/b
SchemaB ==
    [k \in {project_name, author} |->
        IF k = project_name THEN JStr(<<"My Project">>)
        ELSE JStr(<<"John Doe">>)]

version == <<"version">>

year == <<"year">>

use_docker == <<"use_docker">>

\* cookiecutter.json of /tpl/c
SchemaC ==
    [k \in {project_name, version, year, use_docker} |->
        IF k = project_name THEN JStr(<<"My Project">>)
        ELSE IF k = version THEN JInt(0)
        ELSE IF k = year THEN JInt(2024)
        ELSE JBool(FALSE)]

\* load_cookiecutter_config: the parsed cookiecutter.json, or BadParameter
load_cookiecutter_config(template_path) ==
    LET config_path == PathResolve(template_path)
    IN  IF ~HasCookiecutterJson(config_path)
        THEN [raised |-> TRUE, json |-> EmptyDict]
        ELSE [raised |-> FALSE,
              json |-> IF config_path = PathA THEN SchemaA
                       ELSE IF config_path = PathB THEN SchemaB ELSE SchemaC]

----------------------------------------------------------------------------
(* The persisted document, config.py 20-56 *)

\* ~/.wanpc/config.toml does not exist
NoFile == [kind |-> "absent", text |-> EmptyDict]

\* ~/.wanpc/config.toml exists and is not TOML
CorruptFile == [kind |-> "corrupt", text |-> EmptyDict]

\* The text of config.toml is a set of tables, each a header path with its
\* key = value lines: a function from header paths to those lines.

\* the lines of [templates.<name>]: the entry's values that are not tables
\* (None is not written at all)
EntryScalars(e) == [x \in (DOMAIN e) \ {"defaults"} |-> e[x]]

\* whether the entry has a sub-table [templates.<name>.defaults]
EntryHasDefaultsTable(e) == "defaults" \in DOMAIN e /\ IsDict(e["defaults"])

\* mutant of TomlHeaders: a table without lines of its own gets no header
TomlHeaders_SkipsEmpty(cfg) ==
    LET templates == DictGet(cfg, "templates", EmptyDict)
    IN  (IF /\ "global_defaults" \in DOMAIN cfg /\ IsDict(cfg["global_defaults"])
            /\ DOMAIN cfg["global_defaults"].items # {}
         THEN {<<"global_defaults">>} ELSE {})
        \cup {<<"templates", n>> : n \in
                {m \in DOMAIN templates : DOMAIN EntryScalars(templates[m]) # {}}}
        \cup {<<"templates", n, "defaults">> : n \in
                {m \in DOMAIN templates :
                    /\ EntryHasDefaultsTable(templates[m])
                    /\ DOMAIN templates[m]["defaults"].items # {}}}

\* The headers toml.dump writes: a table gets a header when it has lines of
\* its own, or when it has neither lines nor sub-tables.
TomlHeaders(cfg) ==
    LET templates == DictGet(cfg, "templates", EmptyDict)
    IN  (IF "global_defaults" \in DOMAIN cfg /\ IsDict(cfg["global_defaults"])
         THEN {<<"global_defaults">>} ELSE {})
        \cup (IF "templates" \in DOMAIN cfg /\ DOMAIN templates = {}
              THEN {<<"templates">>} ELSE {})
        \cup {<<"templates", n>> : n \in
                {m \in DOMAIN templates :
                    \/ DOMAIN EntryScalars(templates[m]) # {}
                    \/ ~EntryHasDefaultsTable(templates[m])}}
        \cup {<<"templates", n, "defaults">> : n \in
                {m \in DOMAIN templates : EntryHasDefaultsTable(templates[m])}}

\* toml.dump(cfg)
TomlDump(cfg) ==
    [h \in TomlHeaders(cfg) |->
        IF h = <<"global_defaults">> THEN cfg["global_defaults"].items
        ELSE IF h = <<"templates">> THEN EmptyDict
        ELSE IF Len(h) = 2 THEN EntryScalars(cfg["templates"][h[2]])
        ELSE cfg["templates"][h[2]]["defaults"].items]

\* the entry toml.load builds for [templates.<n>] and [templates.<n>.defaults]
TomlLoadEntry(text, n) ==
    LET own == IF <<"templates", n>> \in DOMAIN text
               THEN text[<<"templates", n>>] ELSE EmptyDict
    IN  IF <<"templates", n, "defaults">> \in DOMAIN text
        THEN DictSet(own, "defaults", PyDict(text[<<"templates", n, "defaults">>]))
        ELSE own

\* toml.load(text): nested dicts rebuilt from the header paths
TomlLoad(text) ==
    LET names == {h[2] : h \in {q \in DOMAIN text : Len(q) >= 2 /\ q[1] = "templates"}}
        top == {h[1] : h \in DOMAIN text}
    IN  [x \in top |->
            IF x = "templates" THEN [n \in names |-> TomlLoadEntry(text, n)]
            ELSE PyDict(text[<<x>>])]

\* Config._save_config: the file after cfg was written
_save_config(cfg) == [kind |-> "toml", text |-> TomlDump(cfg)]

\* mutant of _load_config: a missing file is an error like an unreadable one
_load_config_AbsentRaises(f) ==
    IF f.kind = "corrupt" \/ f.kind = "absent"
    THEN [raised |-> TRUE, _config |-> EmptyDict]
    ELSE [raised |-> FALSE, _config |-> TomlLoad(f.text)]

\* mutant of _load_config: a file that does not parse is taken as empty
_load_config_Swallows(f) ==
    IF f.kind = "corrupt" \/ f.kind = "absent"
    THEN [raised |-> FALSE, _config |-> EmptyDict]
    ELSE [raised |-> FALSE, _config |-> TomlLoad(f.text)]

\* Config._load_config: self._config stays {} when there is no file, and
\* PackageCreationError is raised when the file does not parse
_load_config(f) ==
    IF f.kind = "corrupt" THEN [raised |-> TRUE, _config |-> EmptyDict]
    ELSE IF f.kind = "absent" THEN [raised |-> FALSE, _config |-> EmptyDict]
    ELSE [raised |-> FALSE, _config |-> TomlLoad(f.text)]

\* mutant of get_config: writes a default document when there is none
get_config_CreatesDefault(f) ==
    LET c == _load_config(f)
        d == [x \in {"templates", "global_defaults"} |->
                 IF x = "templates" THEN EmptyDict ELSE PyDict(EmptyDict)]
    IN  IF ~c.raised /\ c._config = EmptyDict
        THEN [raised |-> FALSE, cfg |-> d, file |-> _save_config(d)]
        ELSE [raised |-> c.raised, cfg |-> c._config, file |-> f]

\* cli.get_config: Config()._config; the file is only read
get_config(f) ==
    LET c == _load_config(f)
    IN  [raised |-> c.raised, cfg |-> c._config, file |-> f]

\* config.load_config: as get_config, but an empty configuration is replaced
\* by the default one, which is saved
load_config(f) ==
    LET c == _load_config(f)
        d == [x \in {"templates", "global_defaults"} |->
                 IF x = "templates" THEN EmptyDict ELSE PyDict(EmptyDict)]
    IN  IF c.raised THEN [raised |-> TRUE, cfg |-> EmptyDict, file |-> f]
        ELSE IF c._config = EmptyDict
        THEN [raised |-> FALSE, cfg |-> d, file |-> _save_config(d)]
        ELSE [raised |-> FALSE, cfg |-> c._config, file |-> f]

\* cli.save_config: the file after Config()._config = cfg; _save_config()
save_config(cfg) == _save_config(cfg)

----------------------------------------------------------------------------
(* The handlers of `wanpc config <action>`, cli.py 598-813.  Each takes the *)
(* loaded configuration and the values of its options.  An option that is  *)
(* "" or <<>> stands for one that was not given and whose prompt was not   *)
(* answered; otherwise it is the value given or typed.  The outcome is the *)
(* configuration as the handler leaves it, the error it ended with         *)
(* ("none" on return), whether it called save_config and whether it asked  *)
(* for confirmation.                                                       *)

Out(cfg, error, saved, asked) ==
    [cfg |-> cfg, error |-> error, saved |-> saved, asked |-> asked]

\* the entry add-template stores, cli.py 659-663
NewEntry(template_path, description) ==
    [x \in {"path", "defaults", "description"} |->
        IF x = "path" THEN template_path
        ELSE IF x = "defaults" THEN PyDict(EmptyDict)
        ELSE description]

\* mutant of add_template: the entry is stored before the path is validated
add_template_StoreFirst(cfg, name, path, description) ==
    IF name = "" THEN Out(cfg, "Template name is required", FALSE, FALSE)
    ELSE IF path = NoPath THEN Out(cfg, "Template path is required", FALSE, FALSE)
    ELSE LET template_path == PathResolve(path)
             stored == DictSet(cfg, "templates",
                           DictSet(DictGet(cfg, "templates", EmptyDict), name,
                               NewEntry(template_path,
                                   IF description = "" THEN "No description"
                                   ELSE description)))
         IN  IF ~PathExists(template_path)
             THEN Out(stored, "Template path does not exist", TRUE, FALSE)
             ELSE IF ~HasCookiecutterJson(template_path)
             THEN Out(stored, "No cookiecutter.json found", TRUE, FALSE)
             ELSE Out(stored, "none", TRUE, FALSE)

\* mutant of add_template: a name that is registered keeps its defaults
add_template_KeepsDefaults(cfg, name, path, description) ==
    IF name = "" THEN Out(cfg, "Template name is required", FALSE, FALSE)
    ELSE IF path = NoPath THEN Out(cfg, "Template path is required", FALSE, FALSE)
    ELSE LET description1 == IF description = "" THEN "No description" ELSE description
             template_path == PathResolve(path)
         IN  IF ~PathExists(template_path)
             THEN Out(cfg, "Template path does not exist", FALSE, FALSE)
             ELSE IF ~HasCookiecutterJson(template_path)
             THEN Out(cfg, "No cookiecutter.json found", FALSE, FALSE)
             ELSE LET templates == DictGet(cfg, "templates", EmptyDict)
                      entry == NewEntry(template_path, description1)
                  IN  Out(DictSet(cfg, "templates",
                              DictSet(templates, name,
                                  IF name \in DOMAIN templates
                                  THEN DictSet(entry, "defaults",
                                           DictGet(templates[name], "defaults",
                                                   PyDict(EmptyDict)))
                                  ELSE entry)),
                          "none", TRUE, FALSE)

\* mutant of add_template: the path is stored as it was given
add_template_StoresGiven(cfg, name, path, description) ==
    IF name = "" THEN Out(cfg, "Template name is required", FALSE, FALSE)
    ELSE IF path = NoPath THEN Out(cfg, "Template path is required", FALSE, FALSE)
    ELSE LET description1 == IF description = "" THEN "No description" ELSE description
             template_path == PathResolve(path)
         IN  IF ~PathExists(template_path)
             THEN Out(cfg, "Template path does not exist", FALSE, FALSE)
             ELSE IF ~HasCookiecutterJson(template_path)
             THEN Out(cfg, "No cookiecutter.json found", FALSE, FALSE)
             ELSE LET templates == DictGet(cfg, "templates", EmptyDict)
                  IN  Out(DictSet(cfg, "templates",
                              DictSet(templates, name, NewEntry(path, description1))),
                          "none", TRUE, FALSE)

\* config add-template, cli.py 623-669
add_template(cfg, name, path, description) ==
    IF name = "" THEN Out(cfg, "Template name is required", FALSE, FALSE)
    ELSE IF path = NoPath THEN Out(cfg, "Template path is required", FALSE, FALSE)
    ELSE LET description1 == IF description = "" THEN "No description" ELSE description
             template_path == PathResolve(path)
         IN  IF ~PathExists(template_path)
             THEN Out(cfg, "Template path does not exist", FALSE, FALSE)
             ELSE IF ~HasCookiecutterJson(template_path)
             THEN Out(cfg, "No cookiecutter.json found", FALSE, FALSE)
             ELSE LET templates == DictGet(cfg, "templates", EmptyDict)
                  IN  Out(DictSet(cfg, "templates",
                              DictSet(templates, name,
                                  NewEntry(template_path, description1))),
                          "none", TRUE, FALSE)

\* config set-description, cli.py 671-684
set_description(cfg, name, description) ==
    IF name = "" \/ description = "" THEN Out(cfg, "Aborted", FALSE, FALSE)
    ELSE LET templates == DictGet(cfg, "templates", EmptyDict)
         IN  IF name \notin DOMAIN templates
             THEN Out(cfg, "Template not found", FALSE, FALSE)
             ELSE Out(DictSet(cfg, "templates",
                          DictSet(templates, name,
                              DictSet(templates[name], "description", description))),
                      "none", TRUE, FALSE)

\* mutant of set_default: the value is stored as a global default as well
set_default_AlsoGlobal(cfg, name, key, value) ==
    IF name = "" \/ key = <<>> \/ value = <<>> THEN Out(cfg, "Aborted", FALSE, FALSE)
    ELSE LET templates == DictGet(cfg, "templates", EmptyDict)
         IN  IF name \notin DOMAIN templates
             THEN Out(cfg, "Template not found", FALSE, FALSE)
             ELSE LET template_data == templates[name]
                      cookiecutter_config == load_cookiecutter_config(template_data["path"])
                  IN  IF cookiecutter_config.raised
                      THEN Out(cfg, "Failed to load cookiecutter.json", FALSE, FALSE)
                      ELSE IF key \notin DOMAIN cookiecutter_config.json
                      THEN Out(cfg, "Key not found in cookiecutter.json", FALSE, FALSE)
                      ELSE LET defaults == DictGet(template_data, "defaults",
                                                   PyDict(EmptyDict))
                               global_defaults == DictGet(cfg, "global_defaults",
                                                          PyDict(EmptyDict))
                               stored == DictSet(cfg, "templates",
                                             DictSet(templates, name,
                                                 DictSet(template_data, "defaults",
                                                     PyDict(DictSet(defaults.items,
                                                                    key, value)))))
                           IN  Out(DictSet(stored, "global_defaults",
                                       PyDict(DictSet(global_defaults.items, key, value))),
                                   "none", TRUE, FALSE)

\* config set-default, cli.py 686-715
\* mutant of set_default: the key is not looked up in cookiecutter.json
set_default_AnyKey(cfg, name, key, value) ==
    IF name = "" \/ key = <<>> \/ value = <<>> THEN Out(cfg, "Aborted", FALSE, FALSE)
    ELSE LET templates == DictGet(cfg, "templates", EmptyDict)
         IN  IF name \notin DOMAIN templates
             THEN Out(cfg, "Template not found", FALSE, FALSE)
             ELSE LET template_data == templates[name]
                      cookiecutter_config == load_cookiecutter_config(template_data["path"])
                  IN  IF cookiecutter_config.raised
                      THEN Out(cfg, "Failed to load cookiecutter.json", FALSE, FALSE)
                      ELSE LET defaults == DictGet(template_data, "defaults",
                                                   PyDict(EmptyDict))
                           IN  Out(DictSet(cfg, "templates",
                                       DictSet(templates, name,
                                           DictSet(template_data, "defaults",
                                               PyDict(DictSet(defaults.items, key, value))))),
                                   "none", TRUE, FALSE)

set_default(cfg, name, key, value) ==
    IF name = "" \/ key = <<>> \/ value = <<>> THEN Out(cfg, "Aborted", FALSE, FALSE)
    ELSE LET templates == DictGet(cfg, "templates", EmptyDict)
         IN  IF name \notin DOMAIN templates
             THEN Out(cfg, "Template not found", FALSE, FALSE)
             ELSE LET template_data == templates[name]
                      cookiecutter_config == load_cookiecutter_config(template_data["path"])
                  IN  IF cookiecutter_config.raised
                      THEN Out(cfg, "Failed to load cookiecutter.json", FALSE, FALSE)
                      ELSE IF key \notin DOMAIN cookiecutter_config.json
                      THEN Out(cfg, "Key not found in cookiecutter.json", FALSE, FALSE)
                      ELSE LET defaults == DictGet(template_data, "defaults",
                                                   PyDict(EmptyDict))
                           IN  Out(DictSet(cfg, "templates",
                                       DictSet(templates, name,
                                           DictSet(template_data, "defaults",
                                               PyDict(DictSet(defaults.items, key, value))))),
                                   "none", TRUE, FALSE)

\* mutant of set_global_default: the value is pushed into the defaults of
\* every template too
set_global_default_Propagates(cfg, key, value) ==
    IF key = <<>> \/ value = <<>> THEN Out(cfg, "Aborted", FALSE, FALSE)
    ELSE LET global_defaults == DictGet(cfg, "global_defaults", PyDict(EmptyDict))
             templates == DictGet(cfg, "templates", EmptyDict)
             pushed == [n \in DOMAIN templates |->
                           DictSet(templates[n], "defaults",
                               PyDict(DictSet(DictGet(templates[n], "defaults",
                                                      PyDict(EmptyDict)).items,
                                              key, value)))]
         IN  Out(DictSet(DictSet(cfg, "templates", pushed), "global_defaults",
                     PyDict(DictSet(global_defaults.items, key, value))),
                 "none", TRUE, FALSE)

\* config set-global-default, cli.py 717-730
set_global_default(cfg, key, value) ==
    IF key = <<>> \/ value = <<>> THEN Out(cfg, "Aborted", FALSE, FALSE)
    ELSE LET global_defaults == DictGet(cfg, "global_defaults", PyDict(EmptyDict))
         IN  Out(DictSet(cfg, "global_defaults",
                     PyDict(DictSet(global_defaults.items, key, value))),
                 "none", TRUE, FALSE)

\* mutant of remove_template: the template is deleted whatever the answer
remove_template_IgnoresAnswer(cfg, name, confirm) ==
    IF name = "" THEN Out(cfg, "Aborted", FALSE, FALSE)
    ELSE LET templates == DictGet(cfg, "templates", EmptyDict)
         IN  IF name \notin DOMAIN templates
             THEN Out(cfg, "Template not found", FALSE, FALSE)
             ELSE IF confirm = "EOF" THEN Out(cfg, "EOFError", FALSE, TRUE)
             ELSE Out(DictSet(cfg, "templates", DictDel(templates, name)),
                      "none", TRUE, TRUE)

\* config remove-template, cli.py 732-748; confirm is the answer to
\* Confirm.ask: "y", "n", or "EOF" when the input ends
remove_template(cfg, name, confirm) ==
    IF name = "" THEN Out(cfg, "Aborted", FALSE, FALSE)
    ELSE LET templates == DictGet(cfg, "templates", EmptyDict)
         IN  IF name \notin DOMAIN templates
             THEN Out(cfg, "Template not found", FALSE, FALSE)
             ELSE IF confirm = "EOF" THEN Out(cfg, "EOFError", FALSE, TRUE)
             ELSE IF confirm = "n" THEN Out(cfg, "none", FALSE, TRUE)
             ELSE Out(DictSet(cfg, "templates", DictDel(templates, name)),
                      "none", TRUE, TRUE)

\* mutant of remove_default: the confirmation is asked before the key is
\* looked up
remove_default_ConfirmFirst(cfg, name, key, confirm) ==
    LET templates == DictGet(cfg, "templates", EmptyDict)
    IN  IF name \notin DOMAIN templates
        THEN Out(cfg, "Template not found", FALSE, FALSE)
        ELSE LET defaults == DictGet(templates[name], "defaults", PyDict(EmptyDict))
             IN  IF confirm = "EOF" THEN Out(cfg, "EOFError", FALSE, TRUE)
                 ELSE IF confirm = "n" THEN Out(cfg, "none", FALSE, TRUE)
                 ELSE IF key \notin DOMAIN defaults.items
                 THEN Out(cfg, "Default not found", FALSE, TRUE)
                 ELSE Out(DictSet(cfg, "templates",
                              DictSet(templates, name,
                                  DictSet(templates[name], "defaults",
                                      PyDict(DictDel(defaults.items, key))))),
                          "none", TRUE, TRUE)

\* config remove-default, cli.py 750-784
remove_default(cfg, name, key, confirm) ==
    LET templates == DictGet(cfg, "templates", EmptyDict)
    IN  IF name = "" /\ DOMAIN templates = {}
        THEN Out(cfg, "No templates configured", FALSE, FALSE)
        ELSE IF name \notin DOMAIN templates
        THEN Out(cfg, "Template not found", FALSE, FALSE)
        ELSE LET defaults == DictGet(templates[name], "defaults", PyDict(EmptyDict))
             IN  IF key = <<>> /\ DOMAIN defaults.items = {}
                 THEN Out(cfg, "No defaults configured", FALSE, FALSE)
                 ELSE IF key \notin DOMAIN defaults.items
                 THEN Out(cfg, "Default not found", FALSE, FALSE)
                 ELSE IF confirm = "EOF" THEN Out(cfg, "EOFError", FALSE, TRUE)
                 ELSE IF confirm = "n" THEN Out(cfg, "none", FALSE, TRUE)
                 ELSE Out(DictSet(cfg, "templates",
                              DictSet(templates, name,
                                  DictSet(templates[name], "defaults",
                                      PyDict(DictDel(defaults.items, key))))),
                          "none", TRUE, TRUE)

\* config remove-global-default, cli.py 786-806
remove_global_default(cfg, key, confirm) ==
    LET global_defaults == DictGet(cfg, "global_defaults", PyDict(EmptyDict))
    IN  IF key = <<>> /\ DOMAIN global_defaults.items = {}
        THEN Out(cfg, "No global defaults configured", FALSE, FALSE)
        ELSE IF key \notin DOMAIN global_defaults.items
        THEN Out(cfg, "Global default not found", FALSE, FALSE)
        ELSE IF confirm = "EOF" THEN Out(cfg, "EOFError", FALSE, TRUE)
        ELSE IF confirm = "n" THEN Out(cfg, "none", FALSE, TRUE)
        ELSE Out(DictSet(cfg, "global_defaults",
                     PyDict(DictDel(global_defaults.items, key))),
                 "none", TRUE, TRUE)

\* mutant of display_template_info: every global default is shown
display_template_info_AllGlobals(template_name, template_data, cfg) ==
    LET defaults == DictGet(template_data, "defaults", PyDict(EmptyDict)).items
        global_defaults == DictGet(cfg, "global_defaults", PyDict(EmptyDict)).items
    IN  {<<key, defaults[key]>> : key \in DOMAIN defaults}
            \cup {<<key, global_defaults[key]>> : key \in DOMAIN global_defaults}

\* display_template_info, cli.py 99-121: the `key = value` lines printed
\* under "Template Defaults" and "Applicable Global Defaults"
display_template_info(template_name, template_data, cfg) ==
    LET defaults == DictGet(template_data, "defaults", PyDict(EmptyDict)).items
        global_defaults == DictGet(cfg, "global_defaults", PyDict(EmptyDict)).items
    IN  {<<key, defaults[key]>> : key \in DOMAIN defaults}
            \cup {<<key, global_defaults[key]>> :
                    key \in (DOMAIN global_defaults) \ (DOMAIN defaults)}

\* wanpc list, cli.py 125-166: nothing but output
my_list_command(cfg, show_defaults) ==
    LET templates == DictGet(cfg, "templates", EmptyDict)
    IN  [cfg |-> cfg, error |-> "none", saved |-> FALSE, asked |-> FALSE,
         show_defaults |-> show_defaults,
         shown |-> IF show_defaults
                   THEN [name \in DOMAIN templates |->
                            display_template_info(name, templates[name], cfg)]
                   ELSE EmptyDict]

\* config show and config config-path, cli.py 601-621: nothing but output
show(cfg) == Out(cfg, "none", FALSE, FALSE)

config_path(cfg) == Out(cfg, "none", FALSE, FALSE)

\* any other action, cli.py 808-810
invalid_action(cfg) == Out(cfg, "Invalid action", FALSE, FALSE)

----------------------------------------------------------------------------
(* Spec: command invocations, one after the other, on the persisted file *)

TemplateNames == {"t1", "t2"}

Descriptions == {"Test template"}

\* what --path may be: absolute, relative to the working directory, a
\* directory without cookiecutter.json, and a path that does not exist
PathArgs == {PathA, RelPath(<<".", "b">>), PathBare, AbsPath(<<"nowhere">>)}

\* the keys given to the commands; SchemaA declares both, SchemaB only author
DefaultKeys == {author, license}

DefaultValues == {<<"Jane">>, <<"MIT">>}

\* the values given to set-global-default
GlobalValues == {<<"MIT">>}

Confirms == {"y", "n", "EOF"}

\* the record of an invocation: its action and option values
Cmd(action, name, key, value, path, description, confirm) ==
    [action |-> action, name |-> name, key |-> key, value |-> value,
     path |-> path, description |-> description, confirm |-> confirm]

\* the processes that may run at the same time
Procs == {1, 2}

\* No process has started: where each is, the configuration it holds, and
\* the order in which they closed config.toml
RaceIdle ==
    [pc |-> [p \in Procs |-> "start"], cfg |-> [p \in Procs |-> EmptyDict],
     closed |-> <<>>]

\* No command has run yet.
Idle ==
    [action |-> "none", name |-> "", key |-> <<>>, value |-> <<>>, path |-> NoPath,
     description |-> "", confirm |-> "", exit |-> 0, error |-> "none",
     saved |-> FALSE, asked |-> FALSE, before |-> NoFile,
     cfg |-> EmptyDict, said |-> "", show_defaults |-> FALSE, shown |-> EmptyDict]

\* mutant of ExitStatus: the error boundary reports and returns
ExitStatus_Swallowed(error) == 0

\* The exit status: 0 on return; a handler's exception, typer.Exit(1)
\* included, is caught at cli.py 812 and leaves with status 1.
ExitStatus(error) == IF error = "none" THEN 0 ELSE 1

\* What list and config show report about the configuration they loaded,
\* cli.py 147-162 and 615-621
Console(action, cfg) ==
    IF action = "list"
    THEN IF DOMAIN DictGet(cfg, "templates", EmptyDict) = {}
         THEN "No templates configured" ELSE "Available Templates"
    ELSE IF action = "show"
    THEN IF DOMAIN cfg = {} THEN "No configuration found" ELSE "Current Configuration"
    ELSE ""

\* One invocation, started from the shell: get_config, the handler, and the
\* save it asked for.  g is what get_config gave, out the handler's outcome.
Invoke(cmd, g, out) ==
    /\ last.action = "none"
    /\ file' = IF g.raised THEN g.file
               ELSE IF out.saved THEN save_config(out.cfg) ELSE g.file
    /\ last' = [action |-> cmd.action, name |-> cmd.name, key |-> cmd.key,
                value |-> cmd.value, path |-> cmd.path,
                description |-> cmd.description, confirm |-> cmd.confirm,
                exit |-> IF g.raised THEN 1 ELSE ExitStatus(out.error),
                error |-> IF g.raised THEN "Failed to load config file" ELSE out.error,
                saved |-> ~g.raised /\ out.saved,
                asked |-> ~g.raised /\ out.asked,
                before |-> file,
                cfg |-> IF g.raised THEN EmptyDict ELSE out.cfg,
                said |-> IF g.raised THEN "Failed to load config file"
                         ELSE Console(cmd.action, g.cfg),
                show_defaults |-> /\ ~g.raised
                                  /\ "show_defaults" \in DOMAIN out
                                  /\ out.show_defaults,
                shown |-> IF ~g.raised /\ "shown" \in DOMAIN out THEN out.shown
                          ELSE EmptyDict]
    /\ UNCHANGED <<config_data, passed_in, calls, created, race>>

List ==
    \E show_defaults \in BOOLEAN :
        LET g == get_config(file)
        IN  Invoke(Cmd("list", "", <<>>, <<>>, NoPath, "", ""), g,
                   my_list_command(g.cfg, show_defaults))

ConfigShow ==
    LET g == get_config(file)
    IN  Invoke(Cmd("show", "", <<>>, <<>>, NoPath, "", ""), g, show(g.cfg))

ConfigPath ==
    LET g == get_config(file)
    IN  Invoke(Cmd("config-path", "", <<>>, <<>>, NoPath, "", ""), g, config_path(g.cfg))

AddTemplate ==
    \E name \in TemplateNames \cup {""}, path \in PathArgs \cup {NoPath},
       description \in Descriptions \cup {""} :
        LET g == get_config(file)
        IN  Invoke(Cmd("add-template", name, <<>>, <<>>, path, description, ""), g,
                   add_template(g.cfg, name, path, description))

SetDescription ==
    \E name \in TemplateNames \cup {""}, description \in Descriptions \cup {""} :
        LET g == get_config(file)
        IN  Invoke(Cmd("set-description", name, <<>>, <<>>, NoPath, description, ""), g,
                   set_description(g.cfg, name, description))

SetDefault ==
    \E name \in TemplateNames \cup {""}, key \in DefaultKeys \cup {nonexistent, <<>>},
       value \in DefaultValues \cup {<<>>} :
        LET g == get_config(file)
        IN  Invoke(Cmd("set-default", name, key, value, NoPath, "", ""), g,
                   set_default(g.cfg, name, key, value))

SetGlobalDefault ==
    \E key \in DefaultKeys \cup {<<>>}, value \in GlobalValues \cup {<<>>} :
        LET g == get_config(file)
        IN  Invoke(Cmd("set-global-default", "", key, value, NoPath, "", ""), g,
                   set_global_default(g.cfg, key, value))

RemoveTemplate ==
    \E name \in TemplateNames \cup {""}, confirm \in Confirms :
        LET g == get_config(file)
        IN  Invoke(Cmd("remove-template", name, <<>>, <<>>, NoPath, "", confirm), g,
                   remove_template(g.cfg, name, confirm))

RemoveDefault ==
    \E name \in TemplateNames \cup {""}, key \in DefaultKeys \cup {nonexistent, <<>>},
       confirm \in Confirms :
        LET g == get_config(file)
        IN  Invoke(Cmd("remove-default", name, key, <<>>, NoPath, "", confirm), g,
                   remove_default(g.cfg, name, key, confirm))

RemoveGlobalDefault ==
    \E key \in DefaultKeys \cup {nonexistent, <<>>}, confirm \in Confirms :
        LET g == get_config(file)
        IN  Invoke(Cmd("remove-global-default", "", key, <<>>, NoPath, "", confirm), g,
                   remove_global_default(g.cfg, key, confirm))

InvalidAction ==
    LET g == get_config(file)
    IN  Invoke(Cmd("invalid", "", <<>>, <<>>, NoPath, "", ""), g, invalid_action(g.cfg))

\* a caller of the module-level config.load_config()
LoadConfig ==
    LET g == load_config(file)
    IN  Invoke(Cmd("load_config", "", <<>>, <<>>, NoPath, "", ""), g,
               Out(g.cfg, "none", FALSE, FALSE))

\* The process of the last invocation has exited and its status was
\* collected: the shell is ready for the next command.
Exited ==
    /\ last.action # "none"
    /\ last' = Idle
    /\ UNCHANGED <<file, config_data, passed_in, calls, created, race>>

Init ==
    /\ file \in {NoFile, CorruptFile}
    /\ last = Idle
    /\ created = Idle
    /\ config_data = EmptyDict
    /\ passed_in = EmptyDict
    /\ calls = <<>>
    /\ race = RaceIdle

Next ==
    \/ List
    \/ ConfigShow
    \/ ConfigPath
    \/ AddTemplate
    \/ SetDescription
    \/ SetDefault
    \/ SetGlobalDefault
    \/ RemoveTemplate
    \/ RemoveDefault
    \/ RemoveGlobalDefault
    \/ InvalidAction
    \/ LoadConfig
    \/ Exited

Spec == Init /\ [][Next]_vars

----------------------------------------------------------------------------
(* wanpc create, cli.py 400-542 *)

\* item.startswith("--")
StartsWithDashes(item) == Len(item) >= 2 /\ item[1] = "-" /\ item[2] = "-"

\* item[2:]
StripDashes(item) == SubSeq(item, 3, Len(item))

\* key.startswith('_')
StartsWithUnderscore(key) == Len(key) >= 1 /\ key[1] = "_"

\* default_value.find('{{') != -1
ContainsBraces(str) ==
    \E i \in 1..(Len(str) - 1) : str[i] = "{" /\ str[i + 1] = "{"

\* mutant of ListIndex: the last position holding item
ListIndex_Last(args, item) ==
    CHOOSE i \in 1..Len(args) : args[i] = item /\ \A j \in (i + 1)..Len(args) : args[j] # item

\* ctx.args.index(item), counted from 1: the first position holding item
ListIndex(args, item) ==
    CHOOSE i \in 1..Len(args) : args[i] = item /\ \A j \in 1..(i - 1) : args[j] # item

RECURSIVE ParseOverrides(_, _, _, _)
\* the loop over ctx.args from position pos on, cli.py 462-469
ParseOverrides(extra_context, args, pos, cookiecutter_config) ==
    IF pos > Len(args) THEN extra_context
    ELSE LET item == args[pos]
             key == StripDashes(item)
             at == ListIndex(args, item)
         IN  IF /\ StartsWithDashes(item)
                /\ key \in DOMAIN cookiecutter_config
                /\ Len(args) > at
                /\ ~StartsWithDashes(args[at + 1])
             THEN ParseOverrides(DictSet(extra_context, key, args[at + 1]),
                                 args, pos + 1, cookiecutter_config)
             ELSE ParseOverrides(extra_context, args, pos + 1, cookiecutter_config)

\* mutant of DefaultsEnabled: --no-defaults is ignored
DefaultsEnabled_Always(no_defaults) == TRUE

\* `if not no_defaults`, cli.py 472
DefaultsEnabled(no_defaults) == ~no_defaults

\* mutant of AddDefaults: a default replaces the value given on the command line
AddDefaults_Overwrite(extra_context, merged_defaults) ==
    DictUpdate(extra_context, merged_defaults)

\* the defaults added for the keys not given on the command line, cli.py 475-479
AddDefaults(extra_context, merged_defaults) ==
    [k \in (DOMAIN extra_context) \cup (DOMAIN merged_defaults) |->
        IF k \in DOMAIN extra_context THEN extra_context[k] ELSE merged_defaults[k]]

\* mutant of PromptedKeys: keys already in the context are asked for too
PromptedKeys_AsksPresent(extra_context, cookiecutter_config) ==
    {key \in DOMAIN cookiecutter_config :
        /\ ~StartsWithUnderscore(key)
        /\ ~(/\ cookiecutter_config[key].type = "str"
             /\ ContainsBraces(cookiecutter_config[key].str))}

\* mutant of PromptedKeys: internal keys are asked for like the others
PromptedKeys_AsksInternal(extra_context, cookiecutter_config) ==
    {key \in DOMAIN cookiecutter_config :
        /\ key \notin DOMAIN extra_context
        /\ ~(/\ cookiecutter_config[key].type = "str"
             /\ ContainsBraces(cookiecutter_config[key].str))}

\* mutant of PromptedKeys: derived values are asked for like the others
PromptedKeys_AsksDerived(extra_context, cookiecutter_config) ==
    {key \in DOMAIN cookiecutter_config :
        /\ key \notin DOMAIN extra_context
        /\ ~StartsWithUnderscore(key)}

\* the keys the loop of cli.py 493-518 asks for: not in the context, not
\* internal, and not a string holding a Jinja2 expression
PromptedKeys(extra_context, cookiecutter_config) ==
    {key \in DOMAIN cookiecutter_config :
        /\ key \notin DOMAIN extra_context
        /\ ~StartsWithUnderscore(key)
        /\ ~(/\ cookiecutter_config[key].type = "str"
             /\ ContainsBraces(cookiecutter_config[key].str))}

\* mutant of PromptDefault: the last choice of a list is the default
PromptDefault_LastChoice(default_value) ==
    IF default_value.type = "list" THEN default_value.list[Len(default_value.list)]
    ELSE IF Truthy(default_value) THEN PyStr(default_value) ELSE <<>>

\* the default Prompt.ask is given: the first choice of a list, else
\* str(default_value), or "" for a falsy value
PromptDefault(default_value) ==
    IF default_value.type = "list" THEN default_value.list[1]
    ELSE IF Truthy(default_value) THEN PyStr(default_value) ELSE <<>>

\* Prompt.ask: the line typed, or the default when Enter alone is typed
PromptAsk(answer, default) == IF answer = <<>> THEN default ELSE answer

\* the context after the prompt loop
Prompted(extra_context, cookiecutter_config, answers) ==
    [key \in (DOMAIN extra_context) \cup PromptedKeys(extra_context, cookiecutter_config) |->
        IF key \in DOMAIN extra_context THEN extra_context[key]
        ELSE PromptAsk(answers[key], PromptDefault(cookiecutter_config[key]))]

\* what an invocation of create did: the error it ended with, the context
\* as it stood, whether overrides were parsed, whether the defaults were
\* resolved, the keys prompted for, whether cookiecutter was called
Ran(error, extra_context, parsed, resolved, prompted, handed) ==
    [error |-> error, extra_context |-> extra_context, parsed |-> parsed,
     resolved |-> resolved, prompted |-> prompted, handed |-> handed]

\* create from the prompt loop on, cli.py 491-538
create_collect(extra_context, resolved, cookiecutter_config, answers, stdin, engine_ok) ==
    LET prompted == PromptedKeys(extra_context, cookiecutter_config)
        final == Prompted(extra_context, cookiecutter_config, answers)
    IN  IF prompted # {} /\ stdin = "closed"
        THEN Ran("EOFError", extra_context, TRUE, resolved, prompted, FALSE)
        ELSE IF ~engine_ok
        THEN Ran("Error creating project", final, TRUE, resolved, prompted, TRUE)
        ELSE Ran("none", final, TRUE, resolved, prompted, TRUE)

\* create once the schema is loaded, cli.py 460-538
create_variables(cfg, template, no_defaults, args, answers, stdin, engine_ok, cookiecutter_config) ==
    LET overrides == ParseOverrides(EmptyDict, args, 1, cookiecutter_config)
    IN  IF DefaultsEnabled(no_defaults)
        THEN LET merged == Config_get_merged_defaults(cfg, template)
             IN  IF merged.raised # "none"
                 THEN Ran("Template not found in config", overrides,
                          TRUE, TRUE, {}, FALSE)
                 ELSE create_collect(AddDefaults(overrides, merged.result), TRUE,
                                     cookiecutter_config, answers, stdin, engine_ok)
        ELSE create_collect(overrides, FALSE, cookiecutter_config, answers, stdin,
                            engine_ok)

\* mutant of create_template: a schema that cannot be loaded counts as one
\* that declares nothing
create_template_NoSchemaCheck(cfg, template, template_data, no_defaults, args, answers, stdin, engine_ok) ==
    IF "path" \notin DOMAIN template_data
    THEN Ran("No path set for template", EmptyDict, FALSE, FALSE, {}, FALSE)
    ELSE LET template_path == PathResolve(template_data["path"])
             cookiecutter_config == load_cookiecutter_config(template_path)
         IN  IF ~PathExists(template_path)
             THEN Ran("Template path does not exist", EmptyDict, FALSE, FALSE, {}, FALSE)
             ELSE create_variables(cfg, template, no_defaults, args, answers, stdin,
                                   engine_ok, cookiecutter_config.json)

\* create once the template is found, cli.py 436-453, and on
create_template(cfg, template, template_data, no_defaults, args, answers, stdin, engine_ok) ==
    IF "path" \notin DOMAIN template_data
    THEN Ran("No path set for template", EmptyDict, FALSE, FALSE, {}, FALSE)
    ELSE LET template_path == PathResolve(template_data["path"])
             cookiecutter_config == load_cookiecutter_config(template_path)
         IN  IF ~PathExists(template_path)
             THEN Ran("Template path does not exist", EmptyDict, FALSE, FALSE, {}, FALSE)
             ELSE IF cookiecutter_config.raised \/ DOMAIN cookiecutter_config.json = {}
             THEN Ran("No cookiecutter.json found", EmptyDict, FALSE, FALSE, {}, FALSE)
             ELSE create_variables(cfg, template, no_defaults, args, answers, stdin,
                                   engine_ok, cookiecutter_config.json)

\* mutant of create: the defaults are resolved before the template is
\* looked up
create_ResolvesFirst(cfg, template, no_defaults, args, answers, stdin, engine_ok) ==
    LET templates == DictGet(cfg, "templates", EmptyDict)
    IN  IF template \notin DOMAIN templates
        THEN Ran("Template not found in config", EmptyDict, FALSE,
                 DefaultsEnabled(no_defaults), {}, FALSE)
        ELSE create_template(cfg, template, templates[template], no_defaults, args,
                             answers, stdin, engine_ok)

\* create, cli.py 428-542.  answers[key] is the line Prompt.ask accepts for
\* key (<<>> for Enter alone), stdin tells whether input can be read at all,
\* engine_ok whether cookiecutter() returns.
create(cfg, template, no_defaults, args, answers, stdin, engine_ok) ==
    LET templates == DictGet(cfg, "templates", EmptyDict)
    IN  IF template \notin DOMAIN templates
        THEN Ran("Template not found", EmptyDict, FALSE, FALSE, {}, FALSE)
        ELSE create_template(cfg, template, templates[template], no_defaults, args,
                             answers, stdin, engine_ok)

----------------------------------------------------------------------------
(* SpecCreate: one invocation of create on a configuration that the config *)
(* commands can have written                                               *)

MaxArgs == 3

\* the extra arguments that may follow `wanpc create <template>`
ArgTokens == {<<"-", "-", "author">>, <<"-", "-", "license">>, <<"GPL">>}

\* command lines that name a key twice, with two values
RepeatedArgs ==
    {<< <<"-", "-", "author">>, <<"GPL">>, <<"-", "-", "author">>, <<"MIT">> >>,
     << <<"-", "-", "license">>, <<"MIT">>, <<"-", "-", "license">>, <<"GPL">> >>,
     << <<"-", "-", "author">>, <<"-", "-", "author">>, <<"MIT">>, <<"GPL">> >>}

ArgLists == UNION {[1..n -> ArgTokens] : n \in 0..MaxArgs} \cup RepeatedArgs

\* the keys of SchemaA that can be prompted for, and a line typed for each
AnswerKeys == {project_name, author, license}

Typed(key) ==
    IF key = project_name THEN <<"Demo">>
    ELSE IF key = author THEN <<"Bob">>
    ELSE <<"GPL">>

\* one line per key of the schema: the line typed for the keys of T, Enter
\* alone for the others
AnswerSets == {[key \in (DOMAIN SchemaA) \cup (DOMAIN SchemaC) |-> IF key \in T THEN Typed(key) ELSE <<>>] :
               T \in SUBSET AnswerKeys}

\* configurations with t1 registered at /tpl/a
CreateConfigs ==
    {[x \in {"templates", "global_defaults"} |->
         IF x = "templates"
         THEN [n \in {"t1"} |->
                  DictSet(NewEntry(PathA, "No description"), "defaults", PyDict(tg[1]))]
         ELSE PyDict(tg[2])] :
     tg \in Dicts({author, license, _extensions}, {<<"Jane">>})
            \X Dicts({author, <<"year">>}, {<<"MIT">>})}

\* configurations with t1 registered at a directory that has lost its
\* cookiecutter.json, or that is gone, since add-template checked it
StaleConfigs ==
    {[x \in {"templates", "global_defaults"} |->
         IF x = "templates"
         THEN [n \in {"t1"} |-> NewEntry(p, "No description")]
         ELSE PyDict([k \in {author} |-> <<"MIT">>])] :
     p \in {PathBare, AbsPath(<<"nowhere">>)}}

\* configurations where set-default gave t1 a default for the derived key
\* of its schema
DerivedConfigs ==
    {[x \in {"templates", "global_defaults"} |->
         IF x = "templates"
         THEN [n \in {"t1"} |->
                  DictSet(NewEntry(PathA, "No description"), "defaults",
                          PyDict([k \in {project_slug} |-> <<"demo">>]))]
         ELSE PyDict(gd)] :
     gd \in Dicts({author}, {<<"MIT">>})}

\* configurations with t1 registered at /tpl/c
ScalarConfigs ==
    {[x \in {"templates", "global_defaults"} |->
         IF x = "templates"
         THEN [n \in {"t1"} |-> NewEntry(PathC, "No description")]
         ELSE PyDict(gd)] :
     gd \in Dicts({year}, {<<"MIT">>})}

CreateFiles ==
    {NoFile} \cup {_save_config(cfg) :
                      cfg \in CreateConfigs \cup StaleConfigs \cup DerivedConfigs
                              \cup ScalarConfigs}

InitCreate ==
    /\ file \in CreateFiles
    /\ created = Idle
    /\ last = Idle
    /\ config_data = EmptyDict
    /\ passed_in = EmptyDict
    /\ calls = <<>>
    /\ race = RaceIdle

\* wanpc create <template> [--no-defaults] <args>
Create ==
    /\ created.action = "none"
    /\ \E template \in TemplateNames, no_defaults \in BOOLEAN, args \in ArgLists,
          answers \in AnswerSets, stdin \in {"open", "closed"}, engine_ok \in BOOLEAN :
        /\ stdin = "closed" => (\A key \in AnswerKeys : answers[key] = <<>>)
        /\ LET g == get_config(file)
               ran == create(g.cfg, template, no_defaults, args, answers, stdin, engine_ok)
           IN  /\ file' = g.file
               /\ created' =
                      [action |-> "create", template |-> template,
                       no_defaults |-> no_defaults, args |-> args,
                       answers |-> answers, stdin |-> stdin,
                       exit |-> IF g.raised THEN 1 ELSE ExitStatus(ran.error),
                       error |-> IF g.raised THEN "Failed to load config file"
                                 ELSE ran.error,
                       extra_context |-> IF g.raised THEN EmptyDict ELSE ran.extra_context,
                       parsed |-> ~g.raised /\ ran.parsed,
                       resolved |-> ~g.raised /\ ran.resolved,
                       prompted |-> IF g.raised THEN {} ELSE ran.prompted,
                       handed |-> ~g.raised /\ ran.handed]
        /\ UNCHANGED <<last, config_data, passed_in, calls, race>>

NextCreate == Create

SpecCreate == InitCreate /\ [][NextCreate]_vars

----------------------------------------------------------------------------
(* SpecRace: two config invocations at the same time on one config.toml.   *)
(* Each is a process of its own; the steps that touch the file are the     *)
(* read in Config._load_config and, in Config._save_config, the open(.., "w") *)
(* that empties the file and the write of the buffered text at close.      *)

\* config.toml right after open(self.config_file, "w")
Truncated == [kind |-> "toml", text |-> EmptyDict]

\* how long a text is: its headers and its lines
TextSize(text) ==
    Cardinality(DOMAIN text)
        + Cardinality(UNION {{<<h, k>> : k \in DOMAIN text[h]} : h \in DOMAIN text})

\* the text of doc followed by what is left of a longer text
Mixed(current, doc) ==
    [kind |-> "toml",
     text |-> [h \in (DOMAIN doc.text) \cup (DOMAIN current.text) |->
                  IF h \in DOMAIN doc.text THEN doc.text[h] ELSE current.text[h]]]

\* What config.toml may hold after doc was written from offset 0 over
\* current.  Each process writes through its own descriptor: a text written
\* by the other process since this one emptied the file is overwritten from
\* the start and, if it is longer, its tail stays behind doc; the result may
\* or may not parse.
Written(current, doc) ==
    IF TextSize(current.text) <= TextSize(doc.text) THEN {doc}
    ELSE {CorruptFile} \cup ({Mixed(current, doc)} \ {doc})

\* the commands the two processes run
RaceCommands ==
    {Cmd("set-global-default", "", k, <<"MIT">>, NoPath, "", "") : k \in {author, license}}
    \cup {Cmd("add-template", n, <<>>, <<>>, PathA, "Test template", "") :
            n \in {"t1"}}
    \cup {Cmd("remove-global-default", "", author, <<>>, NoPath, "", "y")}

\* the handler of a command
RaceHandler(cmd, cfg) ==
    IF cmd.action = "set-global-default" THEN set_global_default(cfg, cmd.key, cmd.value)
    ELSE IF cmd.action = "add-template"
    THEN add_template(cfg, cmd.name, cmd.path, cmd.description)
    ELSE remove_global_default(cfg, cmd.key, cmd.confirm)

InitRace ==
    /\ file \in {NoFile,
                 _save_config([x \in {"global_defaults"} |->
                                  PyDict([k \in {author} |-> <<"Jane">>])])}
    /\ race = RaceIdle
    /\ last = Idle
    /\ created = Idle
    /\ config_data = EmptyDict
    /\ passed_in = EmptyDict
    /\ calls = <<>>

\* process p loads the configuration and runs its handler up to save_config
RaceLoad(p) ==
    /\ race.pc[p] = "start"
    /\ \E cmd \in RaceCommands :
           LET g == get_config(file)
               out == RaceHandler(cmd, g.cfg)
           IN  race' = [race EXCEPT
                           !.pc[p] = IF g.raised \/ ~out.saved THEN "exited"
                                     ELSE "loaded",
                           !.cfg[p] = IF g.raised THEN EmptyDict ELSE out.cfg]
    /\ UNCHANGED <<file, last, created, config_data, passed_in, calls>>

\* process p opens config.toml for writing, config.py 52
RaceOpen(p) ==
    /\ race.pc[p] = "loaded"
    /\ file' = Truncated
    /\ race' = [race EXCEPT !.pc[p] = "opened"]
    /\ UNCHANGED <<last, created, config_data, passed_in, calls>>

\* process p leaves the with block: the text toml.dump gave is written and
\* the file closed, config.py 52-53
RaceClose(p) ==
    /\ race.pc[p] = "opened"
    /\ file' \in Written(file, save_config(race.cfg[p]))
    /\ race' = [race EXCEPT !.pc[p] = "exited", !.closed = Append(@, p)]
    /\ UNCHANGED <<last, created, config_data, passed_in, calls>>

NextRace == \E p \in Procs : RaceLoad(p) \/ RaceOpen(p) \/ RaceClose(p)

SpecRace == InitRace /\ [][NextRace]_vars

----------------------------------------------------------------------------
(* SpecMerge: Config.get_merged_defaults on bounded inputs *)

MaxCalls == 2

MergeKeys == {"author", "license", "year"}

MergeValues == {"Apache", "MIT"}

MergeNames == {"test", "nonexistent"}

\* what may stand under global_defaults or under a template's defaults
MergeSections == {PyNone} \cup {PyDict(f) : f \in Dicts(MergeKeys, MergeValues)}

\* a template entry, with or without a defaults key (test_config.py 76-90, 209-215)
MergeEntries ==
    {EmptyDict} \cup {[x \in {"defaults"} |-> s] : s \in MergeSections}

\* the templates section: only "test" is ever registered
MergeTemplates ==
    {EmptyDict} \cup {[n \in {"test"} |-> e] : e \in MergeEntries}

MergeConfigs ==
    {EmptyDict}
    \cup {[x \in {"templates"} |-> t] : t \in MergeTemplates}
    \cup {[x \in {"global_defaults"} |-> g] : g \in MergeSections}
    \cup {[x \in {"templates", "global_defaults"} |->
              IF x = "templates" THEN tg[1] ELSE tg[2]] :
          tg \in MergeTemplates \X MergeSections}

InitMerge ==
    /\ config_data \in MergeConfigs
    /\ passed_in = config_data
    /\ calls = <<>>
    /\ file = NoFile
    /\ last = Idle
    /\ created = Idle
    /\ race = RaceIdle

\* One call Config.get_merged_defaults(config_data, template_name), and
\* beside it what the module-level get_merged_defaults gives for the same
\* arguments.
Resolve(template_name) ==
    /\ Len(calls) < MaxCalls
    /\ LET r == Config_get_merged_defaults(config_data, template_name)
       IN  /\ calls' = Append(calls, [template_name |-> template_name,
                                      raised |-> r.raised,
                                      result |-> r.result,
                                      module |-> get_merged_defaults(config_data,
                                                                     template_name)])
           /\ config_data' = r.config_data
    /\ UNCHANGED <<passed_in, file, last, created, race>>

NextMerge == \E template_name \in MergeNames : Resolve(template_name)

SpecMerge == InitMerge /\ [][NextMerge]_vars

----------------------------------------------------------------------------
(* Claims about Config.get_merged_defaults *)

\* the names registered in a config
Registered(cfg) == DOMAIN DictGet(cfg, "templates", EmptyDict)

\* A section read as a mapping: absent and non-mapping sections have no keys.
AsMapping(d, k) ==
    IF k \in DOMAIN d /\ d[k].type = "dict" THEN d[k].items ELSE EmptyDict

GlobalOf(cfg) == AsMapping(cfg, "global_defaults")

TemplateOf(cfg, name) == AsMapping(cfg["templates"][name], "defaults")

\* C1: for a registered template the call returns a mapping whose keys are
\* the union of the keys of global_defaults and of the template's defaults;
\* a key of the template's defaults carries the template's value, any other
\* key carries the global value.
C1_MergedIsUnionTemplateWins ==
    \A i \in 1..Len(calls) :
        LET c == calls[i]
        IN  c.template_name \in Registered(passed_in) =>
                LET G == GlobalOf(passed_in)
                    T == TemplateOf(passed_in, c.template_name)
                IN  /\ c.raised = "none"
                    /\ DOMAIN c.result = (DOMAIN G) \cup (DOMAIN T)
                    /\ \A k \in DOMAIN c.result :
                           c.result[k] = IF k \in DOMAIN T THEN T[k] ELSE G[k]

\* a call where one key is in both sources with different values, one only
\* in the global defaults and one only in the template's defaults
C1_Witness ==
    \E i \in 1..Len(calls) :
        /\ calls[i].template_name \in Registered(passed_in)
        /\ calls[i].raised = "none"
        /\ LET G == GlobalOf(passed_in)
               T == TemplateOf(passed_in, calls[i].template_name)
           IN  /\ \E k \in (DOMAIN G) \cap (DOMAIN T) :
                      G[k] # T[k] /\ calls[i].result[k] = T[k]
               /\ (DOMAIN G) \ (DOMAIN T) # {}
               /\ (DOMAIN T) \ (DOMAIN G) # {}

\* C2: for a name that is not registered, also when there is no templates
\* section, the call raises KeyError and returns nothing.
C2_UnregisteredRaises ==
    \A i \in 1..Len(calls) :
        calls[i].template_name \notin Registered(passed_in) =>
            /\ calls[i].raised = "KeyError"
            /\ calls[i].result = EmptyDict

\* an unregistered name resolved against a config with global defaults and
\* no templates section
C2_Witness ==
    \E i \in 1..Len(calls) :
        /\ "templates" \notin DOMAIN passed_in
        /\ DOMAIN GlobalOf(passed_in) # {}
        /\ calls[i].raised = "KeyError"

\* a section that is absent, empty or not a mapping
Degenerate(d, k) ==
    \/ k \notin DOMAIN d
    \/ d[k].type # "dict"
    \/ d[k].items = EmptyDict

\* C3: for a registered template, a global_defaults or defaults section that
\* is absent, empty or not a mapping counts as empty: the result equals the
\* other section, and is empty without error when both are degenerate.
C3_DegenerateSectionsAreEmpty ==
    \A i \in 1..Len(calls) :
        LET c == calls[i]
        IN  c.template_name \in Registered(passed_in) =>
                LET e  == passed_in["templates"][c.template_name]
                    dg == Degenerate(passed_in, "global_defaults")
                    dt == Degenerate(e, "defaults")
                IN  /\ (dg \/ dt) => c.raised = "none"
                    /\ (dg /\ ~dt) => c.result = e["defaults"].items
                    /\ (dt /\ ~dg) => c.result = passed_in["global_defaults"].items
                    /\ (dg /\ dt) => c.result = EmptyDict

\* a call that returned with a non-mapping global_defaults and a non-empty
\* template mapping, after one with a non-mapping defaults
C3_Witness ==
    \E i \in 1..Len(calls) :
        /\ calls[i].template_name \in Registered(passed_in)
        /\ calls[i].raised = "none"
        /\ "global_defaults" \in DOMAIN passed_in
        /\ passed_in["global_defaults"].type = "NoneType"
        /\ calls[i].result # EmptyDict

\* C3, the other side: non-mapping template defaults, non-empty globals
C3_WitnessTemplateNone ==
    \E i \in 1..Len(calls) :
        /\ calls[i].template_name \in Registered(passed_in)
        /\ calls[i].raised = "none"
        /\ LET e == passed_in["templates"][calls[i].template_name]
           IN  "defaults" \in DOMAIN e /\ e["defaults"].type = "NoneType"
        /\ calls[i].result # EmptyDict

\* C4: the call leaves the config it was given unchanged, and a second call
\* with the same name gives the same outcome as the first.
C4_NoSideEffects ==
    /\ config_data = passed_in
    /\ \A i, j \in 1..Len(calls) :
           calls[i].template_name = calls[j].template_name =>
               /\ calls[i].raised = calls[j].raised
               /\ calls[i].result = calls[j].result

\* two calls for the same registered template whose defaults add a key to
\* non-empty global defaults
C4_Witness ==
    /\ Len(calls) >= 2
    /\ calls[1].template_name = calls[2].template_name
    /\ calls[1].raised = "none"
    /\ calls[1].template_name \in Registered(passed_in)
    /\ DOMAIN GlobalOf(passed_in) # {}
    /\ (DOMAIN TemplateOf(passed_in, calls[1].template_name))
           \ (DOMAIN GlobalOf(passed_in)) # {}

\* C27: for every configuration and template name the module-level
\* get_merged_defaults and Config.get_merged_defaults either both return,
\* with equal mappings, or both fail.
C27_SameOutcome ==
    \A i \in 1..Len(calls) :
        /\ (calls[i].raised = "none") <=> (calls[i].module.raised = "none")
        /\ calls[i].raised = "none" => calls[i].result = calls[i].module.result

----------------------------------------------------------------------------
(* Claims about the commands and the persisted document *)

\* the configuration a file holds, {} when there is none
ConfigIn(f) == _load_config(f)._config

\* the commands that only read
ReadOnlyActions == {"list", "show", "config-path", "load_config"}

\* the config actions that change the configuration
MutatingActions ==
    {"add-template", "set-description", "set-default", "set-global-default",
     "remove-template", "remove-default", "remove-global-default"}

\* the last invocation wrote config.toml
Wrote == last.saved \/ file # last.before

\* C7: the persisted document is written only by the mutating config
\* actions; loading the configuration, list, config show and config
\* config-path never write or create it.
C7_OnlyMutationsWrite ==
    last.action # "none" =>
        /\ Wrote => last.action \in MutatingActions
        /\ last.action \in ReadOnlyActions => file = last.before

\* the same for the commands alone, config.load_config() left aside
C7_CommandsOnly ==
    (last.action # "none" /\ last.action # "load_config") =>
        /\ Wrote => last.action \in MutatingActions
        /\ last.action \in ReadOnlyActions => file = last.before

\* add-template was given a path that does not exist or has no
\* cookiecutter.json
AddTemplateBadPath ==
    /\ last.action = "add-template"
    /\ last.name # ""
    /\ last.path # NoPath
    /\ \/ ~PathExists(PathResolve(last.path))
       \/ ~HasCookiecutterJson(PathResolve(last.path))

\* set-default was given a key that the template's cookiecutter.json does
\* not declare
SetDefaultBadKey ==
    /\ last.action = "set-default"
    /\ last.before.kind # "corrupt"
    /\ last.name \in Registered(ConfigIn(last.before))
    /\ last.key # <<>>
    /\ last.value # <<>>
    /\ LET c == load_cookiecutter_config(
                    ConfigIn(last.before)["templates"][last.name]["path"])
       IN  ~c.raised /\ last.key \notin DOMAIN c.json

\* C8 as stated: such a command fails before any mutation, nothing is
\* saved, the document is what it was, and after add-template the template
\* is not in the registry.
C8_Original ==
    /\ (AddTemplateBadPath \/ SetDefaultBadKey) =>
           /\ last.exit # 0
           /\ ~last.saved
           /\ file = last.before
    /\ (AddTemplateBadPath /\ file.kind # "corrupt") =>
           last.name \notin Registered(ConfigIn(file))

\* C8 as amended: such a command fails before any mutation, nothing is
\* saved and the document is what it was; after add-template the template
\* is in the registry only if it was there before, with the entry it had.
C8_FailsBeforeMutation ==
    /\ (AddTemplateBadPath \/ SetDefaultBadKey) =>
           /\ last.exit # 0
           /\ ~last.saved
           /\ file = last.before
    /\ (AddTemplateBadPath /\ file.kind # "corrupt") =>
           /\ last.name \in Registered(ConfigIn(file)) =>
                  /\ last.name \in Registered(ConfigIn(last.before))
                  /\ ConfigIn(file)["templates"][last.name]
                         = ConfigIn(last.before)["templates"][last.name]

\* add-template with a directory that lacks cookiecutter.json, for a name
\* that is registered with defaults of its own
C8_Witness ==
    /\ AddTemplateBadPath
    /\ PathExists(PathResolve(last.path))
    /\ last.exit = 1
    /\ last.name \in Registered(ConfigIn(file))
    /\ DOMAIN TemplateOf(ConfigIn(file), last.name) # {}

\* set-default with a key the template's schema does not declare
C8_WitnessSetDefault ==
    /\ SetDefaultBadKey
    /\ last.exit = 1
    /\ last.key = license

RemoveTemplateUnregistered ==
    /\ last.action = "remove-template"
    /\ last.before.kind # "corrupt"
    /\ last.name # ""
    /\ last.name \notin Registered(ConfigIn(last.before))

RemoveDefaultNoKey ==
    /\ last.action = "remove-default"
    /\ last.before.kind # "corrupt"
    /\ last.name \in Registered(ConfigIn(last.before))
    /\ last.key # <<>>
    /\ last.key \notin DOMAIN TemplateOf(ConfigIn(last.before), last.name)

RemoveGlobalDefaultNoKey ==
    /\ last.action = "remove-global-default"
    /\ last.before.kind # "corrupt"
    /\ last.key # <<>>
    /\ last.key \notin DOMAIN GlobalOf(ConfigIn(last.before))

\* C9: remove-template on an unregistered name, remove-default on a key the
\* template's defaults lack and remove-global-default on a key the global
\* defaults lack fail with a not-found error and a non-zero status, without
\* asking for confirmation and without changing the document.
C9_RemoveMissingFails ==
    /\ RemoveTemplateUnregistered => last.error = "Template not found"
    /\ RemoveDefaultNoKey => last.error = "Default not found"
    /\ RemoveGlobalDefaultNoKey => last.error = "Global default not found"
    /\ (RemoveTemplateUnregistered \/ RemoveDefaultNoKey \/ RemoveGlobalDefaultNoKey) =>
           /\ last.exit # 0
           /\ ~last.asked
           /\ ~last.saved
           /\ file = last.before

\* remove-default of a key the template lacks while it has another default,
\* with "y" ready as the answer
C9_Witness ==
    /\ RemoveDefaultNoKey
    /\ DOMAIN TemplateOf(ConfigIn(file), last.name) # {}
    /\ last.confirm = "y"
    /\ last.exit = 1

\* C10: when the confirmation of remove-template, remove-default or
\* remove-global-default is declined, nothing is deleted, nothing is saved
\* and the status is 0.
C10_DeclineIsSafe ==
    (/\ last.action \in {"remove-template", "remove-default", "remove-global-default"}
     /\ last.asked
     /\ last.confirm = "n") =>
        /\ last.exit = 0
        /\ ~last.saved
        /\ file = last.before

\* remove-template of a registered template, declined
C10_Witness ==
    /\ last.action = "remove-template"
    /\ last.asked
    /\ last.confirm = "n"
    /\ last.name \in Registered(ConfigIn(file))

----------------------------------------------------------------------------
(* Claims about the exit status *)

\* a command that names a template was given a name that is not registered
NamesMissingTemplate ==
    /\ last.action \in {"set-description", "set-default", "remove-template",
                        "remove-default"}
    /\ last.before.kind # "corrupt"
    /\ last.name # ""
    /\ last.action = "set-description" => last.description # ""
    /\ last.action = "set-default" => (last.key # <<>> /\ last.value # <<>>)
    /\ last.name \notin Registered(ConfigIn(last.before))

\* the invocation ended in a validation failure, a missing template or a
\* missing key
FailedValidation ==
    \/ AddTemplateBadPath
    \/ SetDefaultBadKey
    \/ NamesMissingTemplate
    \/ RemoveDefaultNoKey
    \/ RemoveGlobalDefaultNoKey
    \/ last.action = "invalid"

\* the user answered no to the confirmation of a removal that was possible
DeclinedConfirmation ==
    /\ last.before.kind # "corrupt"
    /\ last.confirm = "n"
    /\ \/ /\ last.action = "remove-template"
          /\ last.name \in Registered(ConfigIn(last.before))
       \/ /\ last.action = "remove-default"
          /\ last.name \in Registered(ConfigIn(last.before))
          /\ last.key \in DOMAIN TemplateOf(ConfigIn(last.before), last.name)
       \/ /\ last.action = "remove-global-default"
          /\ last.key \in DOMAIN GlobalOf(ConfigIn(last.before))

\* the invocation did what it was asked to: a command that reads read a
\* document that parses, a command that changes the configuration wrote it
Succeeded ==
    /\ last.action \in ReadOnlyActions \cup MutatingActions
    /\ last.before.kind # "corrupt"
    /\ last.action \in MutatingActions => Wrote

\* C11 as stated: success exits with status 0; a validation failure, a
\* missing template, a missing key and a declined confirmation exit with a
\* non-zero status.
C11_Original ==
    /\ Succeeded => last.exit = 0
    /\ (FailedValidation \/ DeclinedConfirmation) => last.exit # 0

\* C11 as amended: success and a declined confirmation exit with status 0;
\* a validation failure, a missing template and a missing key exit with a
\* non-zero status.
C11_ExitStatus ==
    /\ (Succeeded \/ DeclinedConfirmation) => last.exit = 0
    /\ FailedValidation => last.exit # 0

\* remove-template of a registered template, declined
C11_Witness ==
    /\ DeclinedConfirmation
    /\ last.action = "remove-template"
    /\ last.exit = 0
    /\ file = last.before

\* a missing key and a success, each with its status
C11_WitnessFailure ==
    /\ RemoveGlobalDefaultNoKey
    /\ last.exit = 1

C11_WitnessSuccess ==
    /\ Succeeded
    /\ last.action = "set-default"
    /\ last.exit = 0

----------------------------------------------------------------------------
(* Claims about persisting and loading *)

\* C12: when a command has written the configuration it holds, a fresh
\* Config that loads the file holds an equal configuration.
C12_RoundTrip ==
    (last.action # "none" /\ Wrote) =>
        /\ ~_load_config(file).raised
        /\ ConfigIn(file) = last.cfg

\* the configuration written has a template with defaults, a template with
\* no defaults, and global defaults
C12_Witness ==
    /\ last.saved
    /\ Registered(last.cfg) = {"t1", "t2"}
    /\ \E n \in Registered(last.cfg) : DOMAIN TemplateOf(last.cfg, n) # {}
    /\ \E n \in Registered(last.cfg) : DOMAIN TemplateOf(last.cfg, n) = {}
    /\ DOMAIN GlobalOf(last.cfg) # {}
    /\ ConfigIn(file) = last.cfg

\* the configuration written has empty tables only
C12_WitnessEmptyTables ==
    /\ last.saved
    /\ "templates" \in DOMAIN last.cfg
    /\ Registered(last.cfg) = {}
    /\ "global_defaults" \in DOMAIN last.cfg
    /\ DOMAIN GlobalOf(last.cfg) = {}
    /\ ConfigIn(file) = last.cfg

\* C13: with no config.toml, Config() holds {} and raises nothing; list and
\* config show exit with status 0 and report that there are no templates
\* and no configuration; the loaded configuration has no template and no
\* global default.
C13_AbsentIsEmpty ==
    /\ file.kind = "absent" =>
           /\ ~_load_config(file).raised
           /\ _load_config(file)._config = EmptyDict
    /\ (last.before.kind = "absent" /\ last.action \in {"list", "show", "load_config"}) =>
           /\ last.exit = 0
           /\ last.error = "none"
           /\ Registered(last.cfg) = {}
           /\ DOMAIN GlobalOf(last.cfg) = {}
    /\ (last.before.kind = "absent" /\ last.action = "list") =>
           last.said = "No templates configured"
    /\ (last.before.kind = "absent" /\ last.action = "show") =>
           last.said = "No configuration found"

\* config show was run with no config.toml
C13_Witness ==
    /\ last.action = "show"
    /\ last.before.kind = "absent"
    /\ file.kind = "absent"
    /\ last.exit = 0
    /\ last.said = "No configuration found"

\* list was run with no config.toml
C13_WitnessList ==
    /\ last.action = "list"
    /\ last.before.kind = "absent"
    /\ last.exit = 0
    /\ last.said = "No templates configured"

\* C14: a config.toml that does not parse makes Config() raise
\* PackageCreationError, and every command that loads it exits with a
\* non-zero status and the load error, without writing the file; with no
\* config.toml there is no error.
C14_MalformedFails ==
    /\ file.kind = "corrupt" => _load_config(file).raised
    /\ file.kind = "absent" => ~_load_config(file).raised
    /\ (last.action # "none" /\ last.before.kind = "corrupt") =>
           /\ last.exit # 0
           /\ last.error = "Failed to load config file"
           /\ ~last.saved
           /\ file = last.before
    /\ (last.before.kind = "absent" /\ last.action \in ReadOnlyActions) =>
           last.exit = 0

\* a command that would otherwise succeed was run on a config.toml that does
\* not parse
C14_Witness ==
    /\ last.action = "set-global-default"
    /\ last.key # <<>>
    /\ last.value # <<>>
    /\ last.before.kind = "corrupt"
    /\ last.exit = 1
    /\ file.kind = "corrupt"

----------------------------------------------------------------------------
(* Claims about the stored path *)

\* the path config.toml holds for a registered template
StoredPath(f, n) == ConfigIn(f)["templates"][n]["path"]

\* absolute, with no "." and no ".." component left
IsResolved(p) ==
    /\ p.absolute
    /\ \A i \in 1..Len(p.parts) : p.parts[i] \notin {".", ".."}

\* every stored path is absolute and resolved, and a successful
\* add-template stores its --path taken from the working directory
PathsAreResolved ==
    /\ \A n \in Registered(ConfigIn(file)) : IsResolved(StoredPath(file, n))
    /\ (last.action = "add-template" /\ last.exit = 0) =>
           /\ last.name \in Registered(ConfigIn(file))
           /\ StoredPath(file, last.name)
                  = IF last.path.absolute THEN last.path
                    ELSE AbsPath(SelectSeq(Cwd.parts \o last.path.parts,
                                           LAMBDA c : c # "."))

\* a command other than an add-template of the same name leaves the stored
\* path of a template as it is
PathIsKept ==
    \A n \in Registered(ConfigIn(file)) \cap Registered(ConfigIn(file')) :
        ~(last'.action = "add-template" /\ last'.name = n) =>
            StoredPath(file', n) = StoredPath(file, n)

\* C17: the path stored for every registered template is absolute and
\* resolved, a relative --path having been resolved against the working
\* directory by add-template, and no later command changes it.
C17_StoredPathResolved == []PathsAreResolved /\ [][PathIsKept]_vars

\* a template registered with a relative path, after later commands on it
C17_Witness ==
    /\ last.action = "set-description"
    /\ last.exit = 0
    /\ IsResolved(StoredPath(file, last.name))
    /\ StoredPath(file, last.name) = PathB
    /\ DOMAIN TemplateOf(ConfigIn(file), last.name) # {}

----------------------------------------------------------------------------
(* Claims about list --show-defaults *)

\* a mapping as the set of its key/value pairs
Pairs(d) == {<<key, d[key]>> : key \in DOMAIN d}

\* C24: list --show-defaults shows every registered template, each with
\* the key/value pairs of Config.get_merged_defaults for it.
C24_ShownAreMerged ==
    (last.action = "list" /\ last.show_defaults /\ last.exit = 0) =>
        LET cfg == ConfigIn(last.before)
        IN  /\ DOMAIN last.shown = Registered(cfg)
            /\ \A name \in Registered(cfg) :
                   LET merged == Config_get_merged_defaults(cfg, name)
                   IN  /\ merged.raised = "none"
                       /\ last.shown[name] = Pairs(merged.result)

\* a template default hides the global default of the same key, another
\* global default is shown, and a second template has no defaults
C24_Witness ==
    /\ last.action = "list"
    /\ last.show_defaults
    /\ last.exit = 0
    /\ LET cfg == ConfigIn(last.before)
       IN  /\ Registered(cfg) = {"t1", "t2"}
           /\ \E name \in Registered(cfg) :
                  /\ author \in DOMAIN TemplateOf(cfg, name)
                  /\ author \in DOMAIN GlobalOf(cfg)
                  /\ TemplateOf(cfg, name)[author] # GlobalOf(cfg)[author]
                  /\ license \in (DOMAIN GlobalOf(cfg)) \ (DOMAIN TemplateOf(cfg, name))
                  /\ <<license, GlobalOf(cfg)[license]>> \in last.shown[name]
                  /\ <<author, GlobalOf(cfg)[author]>> \notin last.shown[name]
           /\ \E name \in Registered(cfg) : DOMAIN TemplateOf(cfg, name) = {}

----------------------------------------------------------------------------
(* Claims about what the default commands change *)

\* the registry of a configuration
TemplatesOf(cfg) == DictGet(cfg, "templates", EmptyDict)

\* an entry without its defaults
Rest(entry) == [x \in (DOMAIN entry) \ {"defaults"} |-> entry[x]]

\* C25: set-default and remove-default on T leave the set of registered
\* names, the entry of every other template, the path and description of T
\* and the global defaults as they were; set-global-default and
\* remove-global-default leave every template entry as it was.
C25_DefaultsFrame ==
    LET before == ConfigIn(last.before)
        after == ConfigIn(file)
    IN  /\ last.action \in {"set-default", "remove-default"} =>
               /\ Registered(after) = Registered(before)
               /\ \A n \in Registered(before) \ {last.name} :
                      TemplatesOf(after)[n] = TemplatesOf(before)[n]
               /\ last.name \in Registered(before) =>
                      Rest(TemplatesOf(after)[last.name])
                          = Rest(TemplatesOf(before)[last.name])
               /\ GlobalOf(after) = GlobalOf(before)
        /\ last.action \in {"set-global-default", "remove-global-default"} =>
               TemplatesOf(after) = TemplatesOf(before)

\* set-default changed the defaults of one of two templates, with global
\* defaults present
C25_Witness ==
    /\ last.action = "set-default"
    /\ last.saved
    /\ file # last.before
    /\ Registered(ConfigIn(file)) = {"t1", "t2"}
    /\ DOMAIN GlobalOf(ConfigIn(file)) # {}
    /\ \E n \in Registered(ConfigIn(file)) \ {last.name} :
           DOMAIN TemplateOf(ConfigIn(file), n) # {}

\* remove-global-default changed the global defaults, with templates that
\* have defaults
C25_WitnessGlobal ==
    /\ last.action = "remove-global-default"
    /\ last.saved
    /\ file # last.before
    /\ \E n \in Registered(ConfigIn(file)) : DOMAIN TemplateOf(ConfigIn(file), n) # {}

\* the defaults resolved for a registered template from config.toml
ResolvedFor(f, n) == Config_get_merged_defaults(ConfigIn(f), n).result

\* after a successful set-default(T, k, v) T resolves k to v; after a
\* confirmed remove-default(T, k) T resolves k to the global default, or
\* to nothing when there is none
ResolvesAsSet ==
    /\ (last.action = "set-default" /\ last.saved) =>
           /\ last.key \in DOMAIN ResolvedFor(file, last.name)
           /\ ResolvedFor(file, last.name)[last.key] = last.value
    /\ (last.action = "remove-default" /\ last.saved) =>
           IF last.key \in DOMAIN GlobalOf(ConfigIn(file))
           THEN /\ last.key \in DOMAIN ResolvedFor(file, last.name)
                /\ ResolvedFor(file, last.name)[last.key]
                       = GlobalOf(ConfigIn(file))[last.key]
           ELSE last.key \notin DOMAIN ResolvedFor(file, last.name)

\* set-global-default and remove-global-default leave what a template
\* resolves for the keys of its own defaults
GlobalStepsKeepTemplateValues ==
    last'.action \in {"set-global-default", "remove-global-default"} =>
        \A n \in Registered(ConfigIn(file)) :
            \A key \in DOMAIN TemplateOf(ConfigIn(file), n) :
                /\ n \in Registered(ConfigIn(file'))
                /\ key \in DOMAIN ResolvedFor(file', n)
                /\ ResolvedFor(file', n)[key] = TemplateOf(ConfigIn(file), n)[key]

\* C26: after a successful set-default(T, k, v) resolving T gives k = v,
\* and any later set-global-default or remove-global-default keeps it so;
\* after a confirmed remove-default(T, k) resolving T gives the global
\* default of k when there is one and nothing for k otherwise.
C26_TemplateDefaultHolds == []ResolvesAsSet /\ [][GlobalStepsKeepTemplateValues]_vars

\* a global default was set for a key that a template has a different
\* default for
C26_Witness ==
    /\ last.action = "set-global-default"
    /\ last.saved
    /\ \E n \in Registered(ConfigIn(file)) :
           /\ last.key \in DOMAIN TemplateOf(ConfigIn(file), n)
           /\ ResolvedFor(file, n)[last.key] # last.value
           /\ ResolvedFor(file, n)[last.key] = <<"Jane">>

\* a default was removed from a template while a global default of the key
\* exists
C26_WitnessRemoved ==
    /\ last.action = "remove-default"
    /\ last.saved
    /\ last.key \in DOMAIN GlobalOf(ConfigIn(file))
    /\ ResolvedFor(file, last.name)[last.key] = <<"MIT">>
    /\ TemplateOf(ConfigIn(last.before), last.name)[last.key] = <<"Jane">>

----------------------------------------------------------------------------
(* Claims about the registry *)

\* add-template succeeded for a name that was registered
Reregistered ==
    /\ last.action = "add-template"
    /\ last.exit = 0
    /\ last.name \in Registered(ConfigIn(last.before))

\* C28: add-template with a name that is registered leaves the same names
\* registered; the entry of the name has the new resolved path, the new
\* description and no defaults; every other entry and the global defaults
\* are as they were.
C28_AddReplaces ==
    Reregistered =>
        LET before == ConfigIn(last.before)
            after == ConfigIn(file)
            entry == TemplatesOf(after)[last.name]
        IN  /\ Registered(after) = Registered(before)
            /\ entry["path"] = PathResolve(last.path)
            /\ entry["description"] = IF last.description = "" THEN "No description"
                                      ELSE last.description
            /\ DOMAIN TemplateOf(after, last.name) = {}
            /\ \A n \in Registered(before) \ {last.name} :
                   TemplatesOf(after)[n] = TemplatesOf(before)[n]
            /\ GlobalOf(after) = GlobalOf(before)

\* the name had defaults and another path; another template and global
\* defaults are there
C28_Witness ==
    /\ Reregistered
    /\ DOMAIN TemplateOf(ConfigIn(last.before), last.name) # {}
    /\ TemplatesOf(ConfigIn(last.before))[last.name]["path"] # PathResolve(last.path)
    /\ Registered(ConfigIn(file)) = {"t1", "t2"}
    /\ DOMAIN GlobalOf(ConfigIn(file)) # {}

\* the keys cookiecutter.json declares for the template at an entry's path
DeclaredKeys(entry) == DOMAIN load_cookiecutter_config(entry["path"]).json

\* C29: after any sequence of config commands that starts without a
\* configuration, every key in the defaults of every registered template is
\* a key of the cookiecutter.json at that template's path.
C29_DefaultKeysDeclared ==
    LET cfg == ConfigIn(file)
    IN  \A n \in Registered(cfg) :
            DOMAIN TemplateOf(cfg, n) \subseteq DeclaredKeys(TemplatesOf(cfg)[n])

\* a template that had a default for license was registered again at a path
\* whose cookiecutter.json has no license, while another template keeps a
\* default
C29_Witness ==
    /\ Reregistered
    /\ license \in DOMAIN TemplateOf(ConfigIn(last.before), last.name)
    /\ license \notin DeclaredKeys(TemplatesOf(ConfigIn(file))[last.name])
    /\ \E n \in Registered(ConfigIn(file)) : DOMAIN TemplateOf(ConfigIn(file), n) # {}

\* set-default stored a key for a template whose cookiecutter.json lacks
\* another key of the command line
C29_WitnessSet ==
    /\ last.action = "set-default"
    /\ last.exit = 0
    /\ license \notin DeclaredKeys(TemplatesOf(ConfigIn(file))[last.name])
    /\ DOMAIN TemplateOf(ConfigIn(file), last.name) = {author}

----------------------------------------------------------------------------
(* Claims about the context create hands to cookiecutter *)

\* the flag that names key on the command line
Flag(key) == <<"-", "-">> \o key

\* the schema of the template create was asked for
SchemaOfCreated ==
    load_cookiecutter_config(
        PathResolve(ConfigIn(file)["templates"][created.template]["path"])).json

\* key is given on the command line: the first --key is followed by a token
\* that is not itself a flag, and the schema declares key
Overridden(args, key) ==
    /\ key \in DOMAIN SchemaOfCreated
    /\ \E i \in 1..(Len(args) - 1) :
           /\ args[i] = Flag(key)
           /\ \A j \in 1..(i - 1) : args[j] # Flag(key)
           /\ ~(Len(args[i + 1]) >= 2 /\ SubSeq(args[i + 1], 1, 2) = <<"-", "-">>)

OverrideOf(args, key) ==
    args[1 + CHOOSE i \in 1..Len(args) :
                 args[i] = Flag(key) /\ \A j \in 1..(i - 1) : args[j] # Flag(key)]

\* what the schema declares for a key that is asked for, as a string: the
\* first choice of a list, the text of a string, the decimal digits of a
\* number, True or False
DeclaredDefault(key) ==
    LET declared == SchemaOfCreated[key]
    IN  IF declared.type = "list" THEN declared.list[1]
        ELSE IF declared.type = "str" THEN declared.str
        ELSE IF declared.type = "int" THEN <<ToString(declared.int)>>
        ELSE IF declared.bool THEN <<"True">> ELSE <<"False">>

\* the schema declares 0 or false for key
DeclaredZero(key) ==
    LET declared == SchemaOfCreated[key]
    IN  \/ declared.type = "int" /\ declared.int = 0
        \/ declared.type = "bool" /\ ~declared.bool

\* the value of a key that neither the command line nor the configuration
\* gives: the line typed at its prompt, and on Enter alone the declared
\* default, or nothing for a declared 0 or false
FilledIn(key, value) ==
    /\ key \in DOMAIN SchemaOfCreated
    /\ key \in DOMAIN created.answers
    /\ value = IF created.answers[key] # <<>> THEN created.answers[key]
               ELSE IF DeclaredZero(key) THEN <<>>
               ELSE DeclaredDefault(key)

\* C5: in create without --no-defaults every key of the context handed to
\* cookiecutter has the value of its highest source: the command-line
\* override if there is one, else the template's default, else the global
\* default, else the prompted or declared value; and every key that has an
\* override or a default is in the context.
C5_PrecedenceOfSources ==
    (created.action = "create" /\ created.handed /\ ~created.no_defaults) =>
        LET cfg == ConfigIn(file)
            t == TemplateOf(cfg, created.template)
            g == GlobalOf(cfg)
            ctx == created.extra_context
        IN  /\ \A key \in DOMAIN ctx :
                   IF Overridden(created.args, key)
                   THEN ctx[key] = OverrideOf(created.args, key)
                   ELSE IF key \in DOMAIN t THEN ctx[key] = t[key]
                   ELSE IF key \in DOMAIN g THEN ctx[key] = g[key]
                   ELSE FilledIn(key, ctx[key])
            /\ \A key \in (DOMAIN t) \cup (DOMAIN g) : key \in DOMAIN ctx
            /\ \A key \in DOMAIN SchemaOfCreated :
                   Overridden(created.args, key) => key \in DOMAIN ctx

\* an override of author meets a different template default and a different
\* global default; a key only the global defaults have and a prompted key
\* are in the context too
C5_Witness ==
    /\ created.action = "create"
    /\ created.handed
    /\ ~created.no_defaults
    /\ Overridden(created.args, author)
    /\ LET cfg == ConfigIn(file)
       IN  /\ author \in DOMAIN TemplateOf(cfg, created.template)
           /\ author \in DOMAIN GlobalOf(cfg)
           /\ TemplateOf(cfg, created.template)[author] # OverrideOf(created.args, author)
           /\ <<"year">> \in DOMAIN GlobalOf(cfg)
           /\ <<"year">> \in DOMAIN created.extra_context
    /\ created.extra_context[author] = <<"GPL">>
    /\ project_name \in created.prompted

\* a template default meets a global default for the same key, no override
C5_WitnessTemplateBeatsGlobal ==
    /\ created.action = "create"
    /\ created.handed
    /\ ~created.no_defaults
    /\ ~Overridden(created.args, author)
    /\ LET cfg == ConfigIn(file)
       IN  /\ author \in DOMAIN TemplateOf(cfg, created.template)
           /\ author \in DOMAIN GlobalOf(cfg)
           /\ TemplateOf(cfg, created.template)[author] # GlobalOf(cfg)[author]
    /\ created.extra_context[author] = <<"Jane">>

\* C6: create with --no-defaults never resolves the defaults, and every key
\* of the context handed to cookiecutter has the value of a command-line
\* override, else the line typed at its prompt, else the value the schema
\* declares; no other key is in the context.
C6_NoDefaultsBypass ==
    (created.action = "create" /\ created.no_defaults) =>
        /\ ~created.resolved
        /\ created.handed =>
               \A key \in DOMAIN created.extra_context :
                   IF Overridden(created.args, key)
                   THEN created.extra_context[key] = OverrideOf(created.args, key)
                   ELSE FilledIn(key, created.extra_context[key])

\* the configuration has a template default and a global default for author
\* and a global default for year, and the context has the declared author
\* and no year
C6_Witness ==
    /\ created.action = "create"
    /\ created.no_defaults
    /\ created.handed
    /\ LET cfg == ConfigIn(file)
       IN  /\ author \in DOMAIN TemplateOf(cfg, created.template)
           /\ author \in DOMAIN GlobalOf(cfg)
           /\ <<"year">> \in DOMAIN GlobalOf(cfg)
    /\ created.extra_context[author] = <<"John Doe">>
    /\ <<"year">> \notin DOMAIN created.extra_context
    /\ Overridden(created.args, license)

----------------------------------------------------------------------------
(* Claims about the failures of create *)

\* create ran on a config.toml that parses
CreateRan == created.action = "create" /\ file.kind # "corrupt"

\* C15: create with a template name that is not registered exits with a
\* non-zero status, parses no override into the context, resolves no
\* defaults, prompts for nothing and does not call cookiecutter.
C15_UnregisteredFailsFirst ==
    (CreateRan /\ created.template \notin Registered(ConfigIn(file))) =>
        /\ created.exit # 0
        /\ ~created.parsed
        /\ created.extra_context = EmptyDict
        /\ ~created.resolved
        /\ created.prompted = {}
        /\ ~created.handed

\* an unregistered name, with an override on the command line, defaults
\* enabled and configured for another template, and answers ready
C15_Witness ==
    /\ CreateRan
    /\ created.template \notin Registered(ConfigIn(file))
    /\ Registered(ConfigIn(file)) # {}
    /\ DOMAIN GlobalOf(ConfigIn(file)) # {}
    /\ ~created.no_defaults
    /\ created.args = <<Flag(author), <<"GPL">>>>
    /\ created.answers[project_name] # <<>>
    /\ created.exit = 1

\* the template's directory is there or not, but its cookiecutter.json
\* cannot be loaded
SchemaUnavailable ==
    /\ CreateRan
    /\ created.template \in Registered(ConfigIn(file))
    /\ load_cookiecutter_config(
           ConfigIn(file)["templates"][created.template]["path"]).raised

\* C16: create on a registered template whose cookiecutter.json is missing
\* or unreadable exits with a non-zero status, prompts for nothing and does
\* not call cookiecutter.
C16_SchemaUnavailableFails ==
    SchemaUnavailable =>
        /\ created.exit # 0
        /\ created.prompted = {}
        /\ ~created.handed

\* the directory exists and has no cookiecutter.json; no override is given
\* and the input is open
C16_Witness ==
    /\ SchemaUnavailable
    /\ PathExists(ConfigIn(file)["templates"][created.template]["path"])
    /\ created.stdin = "open"
    /\ created.args = <<>>
    /\ created.exit = 1

----------------------------------------------------------------------------
(* Claims about the keys create skips *)

\* the context cookiecutter was called with
Handed == CreateRan /\ created.handed

\* the keys of the schema whose name begins with "_"
InternalKeys == {key \in DOMAIN SchemaOfCreated : Len(key) >= 1 /\ key[1] = "_"}

\* key has a resolved default that create uses
HasResolvedDefault(key) ==
    /\ ~created.no_defaults
    /\ \/ key \in DOMAIN TemplateOf(ConfigIn(file), created.template)
       \/ key \in DOMAIN GlobalOf(ConfigIn(file))

\* the value of the resolved default of key
ResolvedDefault(key) ==
    IF key \in DOMAIN TemplateOf(ConfigIn(file), created.template)
    THEN TemplateOf(ConfigIn(file), created.template)[key]
    ELSE GlobalOf(ConfigIn(file))[key]

\* key is in the context with the value of its override, or else of its
\* resolved default
Supplied(key) ==
    /\ Overridden(created.args, key) \/ HasResolvedDefault(key)
    /\ created.extra_context[key] =
           IF Overridden(created.args, key) THEN OverrideOf(created.args, key)
           ELSE ResolvedDefault(key)

\* C18 as stated: no key of the schema that begins with "_" is prompted for
\* or is in the context handed to cookiecutter.
C18_Original ==
    Handed =>
        \A key \in InternalKeys :
            /\ key \notin created.prompted
            /\ key \notin DOMAIN created.extra_context

\* C18 as amended: no key of the schema that begins with "_" is prompted
\* for, and such a key is in the context handed to cookiecutter only when an
\* override or a resolved default supplies it, with that value.
C18_InternalKeysNotPrompted ==
    Handed =>
        \A key \in InternalKeys :
            /\ key \notin created.prompted
            /\ key \in DOMAIN created.extra_context => Supplied(key)

\* no source supplies _extensions: it is left out while other keys are
\* prompted for
C18_Witness ==
    /\ Handed
    /\ created.stdin = "open"
    /\ _extensions \in InternalKeys
    /\ ~HasResolvedDefault(_extensions)
    /\ _extensions \notin DOMAIN created.extra_context
    /\ created.prompted # {}

\* a template default supplies _extensions
C18_WitnessSupplied ==
    /\ Handed
    /\ HasResolvedDefault(_extensions)
    /\ _extensions \in DOMAIN created.extra_context

\* the keys of the schema whose declared value is a string containing "{{"
DerivedKeys ==
    {key \in DOMAIN SchemaOfCreated :
        /\ SchemaOfCreated[key].type = "str"
        /\ \E i \in 1..(Len(SchemaOfCreated[key].str) - 1) :
               SubSeq(SchemaOfCreated[key].str, i, i + 1) = <<"{", "{">>}

\* C19 as stated: a key of the schema whose declared value is a string
\* containing "{{" has no value in the context handed to cookiecutter.
C19_Original ==
    Handed => \A key \in DerivedKeys : key \notin DOMAIN created.extra_context

\* C19 as amended: such a key is never prompted for, and it has a value in
\* the context handed to cookiecutter only when an override or a resolved
\* default supplies it, with that value.
C19_DerivedKeysNotFilled ==
    Handed =>
        \A key \in DerivedKeys :
            /\ key \notin created.prompted
            /\ key \in DOMAIN created.extra_context => Supplied(key)

\* no source supplies project_slug: it is left to cookiecutter while other
\* keys are prompted for
C19_Witness ==
    /\ Handed
    /\ created.stdin = "open"
    /\ project_slug \in DerivedKeys
    /\ ~HasResolvedDefault(project_slug)
    /\ project_slug \notin DOMAIN created.extra_context
    /\ project_name \in created.prompted

\* a template default supplies project_slug
C19_WitnessSupplied ==
    /\ Handed
    /\ HasResolvedDefault(project_slug)
    /\ created.extra_context[project_slug] = <<"demo">>

\* the keys of the schema whose declared value is a list of choices
ChoiceKeys == {key \in DOMAIN SchemaOfCreated : SchemaOfCreated[key].type = "list"}

Choices(key) ==
    {SchemaOfCreated[key].list[i] : i \in 1..Len(SchemaOfCreated[key].list)}

\* key was asked for and Enter alone was typed
NothingTyped(key) == key \in created.prompted /\ created.answers[key] = <<>>

\* C20 as stated: the value a choice key has in the context handed to
\* cookiecutter is one of its choices, and the first of them when nothing
\* was typed for it.
C20_Original ==
    Handed =>
        \A key \in ChoiceKeys \cap DOMAIN created.extra_context :
            /\ created.extra_context[key] \in Choices(key)
            /\ NothingTyped(key) =>
                   created.extra_context[key] = SchemaOfCreated[key].list[1]

\* C20 as amended: the value a choice key has in the context handed to
\* cookiecutter is that of its override or resolved default when it has
\* one; otherwise it is one of the choices, and the first of them when
\* nothing was typed for it.
C20_ChoiceKeysConstrained ==
    Handed =>
        \A key \in ChoiceKeys \cap DOMAIN created.extra_context :
            IF Overridden(created.args, key) \/ HasResolvedDefault(key)
            THEN Supplied(key)
            ELSE /\ created.extra_context[key] \in Choices(key)
                 /\ NothingTyped(key) =>
                        created.extra_context[key] = SchemaOfCreated[key].list[1]

\* license is asked for and Enter alone is typed
C20_Witness ==
    /\ Handed
    /\ license \in ChoiceKeys
    /\ license \in created.prompted
    /\ created.answers[license] = <<>>
    /\ created.extra_context[license] = <<"MIT">>

\* license is asked for and the second choice is typed
C20_WitnessTyped ==
    /\ Handed
    /\ license \in created.prompted
    /\ created.extra_context[license] = <<"GPL">>

\* a template default gives license a value that is not a choice
C20_WitnessSupplied ==
    /\ Handed
    /\ HasResolvedDefault(license)
    /\ created.extra_context[license] \notin Choices(license)

----------------------------------------------------------------------------
(* Claims about the prompt loop *)

\* C21: a key of the schema that an override or a resolved default has put
\* in the context is not prompted for, and the context handed to
\* cookiecutter has it with that value.
C21_PresentKeysSkipped ==
    (CreateRan /\ created.parsed) =>
        \A key \in DOMAIN SchemaOfCreated :
            (Overridden(created.args, key) \/ HasResolvedDefault(key)) =>
                /\ key \notin created.prompted
                /\ created.handed => Supplied(key)

\* author has a resolved default and license an override, a line is ready
\* for both, and another key is prompted for
C21_Witness ==
    /\ Handed
    /\ HasResolvedDefault(author)
    /\ ~Overridden(created.args, author)
    /\ Overridden(created.args, license)
    /\ created.answers[author] # <<>>
    /\ created.answers[license] # <<>>
    /\ created.extra_context[author] = ResolvedDefault(author)
    /\ created.extra_context[author] # created.answers[author]
    /\ project_name \in created.prompted

\* the keys of the schema that are asked for with a scalar declared value
ScalarKeys ==
    {key \in DOMAIN SchemaOfCreated :
        /\ key \in created.prompted
        /\ key \notin InternalKeys \cup DerivedKeys \cup ChoiceKeys}

\* C22: a key of the schema that is not in the context, is not internal, is
\* not derived and is not a choice list has, when Enter alone is typed at
\* its prompt, the declared value as a string in the context handed to
\* cookiecutter.
C22_ScalarDefaultRendered ==
    Handed =>
        \A key \in ScalarKeys :
            created.answers[key] = <<>> =>
                created.extra_context[key] = DeclaredDefault(key)

----------------------------------------------------------------------------
(* Claims about invocations at the same time *)

\* both processes are through
RaceOver == \A p \in Procs : race.pc[p] = "exited"

\* C23: when both invocations are through and one of them has saved,
\* config.toml is the document of the one that saved last.
C23_LastWriterWins ==
    (RaceOver /\ race.closed # <<>>) =>
        file = save_config(race.cfg[race.closed[Len(race.closed)]])

----------------------------------------------------------------------------
(* Claims about the override parsing of create *)

\* the positions of the command line that hold --key
Occurrences(args, key) == {i \in 1..Len(args) : args[i] = Flag(key)}

\* --key is on the command line more than once
Repeated(args, key) == Cardinality(Occurrences(args, key)) >= 2

\* C30: once create has parsed the command line, a declared key whose first
\* --key is followed by a token that is not a flag is in the context with
\* that token and is not prompted for; any other key is in the context only
\* with a resolved default or a prompted value, whatever follows a later
\* --key.
C30_FirstOccurrenceDecides ==
    (CreateRan /\ created.parsed) =>
        \A key \in DOMAIN SchemaOfCreated :
            IF Overridden(created.args, key)
            THEN /\ key \in DOMAIN created.extra_context
                 /\ created.extra_context[key] = OverrideOf(created.args, key)
                 /\ key \notin created.prompted
            ELSE key \in DOMAIN created.extra_context =>
                     \/ key \in created.prompted
                     \/ /\ HasResolvedDefault(key)
                        /\ created.extra_context[key] = ResolvedDefault(key)

\* --author twice, each followed by a different value: the first one is used
C30_Witness ==
    /\ Handed
    /\ Repeated(created.args, author)
    /\ \E i \in Occurrences(created.args, author) :
           /\ i < Len(created.args)
           /\ created.args[i + 1] = <<"MIT">>
    /\ created.extra_context[author] = <<"GPL">>

\* the first --author is followed by a flag, a later one by a value: author
\* is prompted for
C30_WitnessNotAdded ==
    /\ Handed
    /\ Repeated(created.args, author)
    /\ ~Overridden(created.args, author)
    /\ \E i \in Occurrences(created.args, author) :
           /\ i < Len(created.args)
           /\ created.args[i + 1] = <<"MIT">>
    /\ author \in created.prompted
    /\ created.extra_context[author] = <<"Bob">>

====
